---- MODULE Spec2Model ----
(***************************************************************************)
(* Model of the compas-auth-gw authenticating reverse proxy:               *)
(*   - the multi-upstream route table (construction, sorting, matching,    *)
(*     the per-route director that rewrites the forwarded request),        *)
(*   - the in-memory session store (Get/Set/Delete, the removal that Get   *)
(*     schedules for an expired entry, the periodic sweep),                *)
(*   - the OIDC gate, callback and logout handlers composed by main.       *)
(*                                                                         *)
(* Strings that the code inspects character by character (URL paths and    *)
(* route prefixes) are sequences of one-character strings, so "/a/b" is    *)
(* <<"/", "a", "/", "b">>.  Named endpoints use one symbol per path        *)
(* segment (<<"/", "health">>), which the code only compares as a whole or *)
(* splits at "/".                                                          *)
(***************************************************************************)
EXTENDS Integers, Sequences, FiniteSets, TLC

VARIABLES
    config,         \* the loaded configuration (UpstreamRoutes, SessionMaxAge, OIDC settings)
    loopVarShared,  \* build: TRUE when a range loop variable is one variable for all iterations (Go < 1.22)
    routes,         \* MultiProxyMiddleware.routes
    sessions,       \* MemorySessionStore.sessions: session id -> SessionData or Nil
    pending,        \* ids whose removal a Get has scheduled (goroutines not yet run)
    now,            \* the wall clock, time.Now()
    lastPut,        \* history: per id, the latest Set not followed by a Delete
    mu,             \* MemorySessionStore.mu: the goroutine holding the write lock, those holding read locks
    threads,        \* per goroutine using the store: the call it is in and its position in it
    ticker,         \* MemorySessionStore.cleanup: stopped or not, and the tick waiting in its channel
    out             \* the outcome of the last operation (response, return value)

vars == <<config, loopVarShared, routes, sessions, pending, now, lastPut, mu, threads,
          ticker, out>>

Nil == [nil |-> TRUE]

(***************************************************************************)
(* Bounds                                                                  *)
(***************************************************************************)
MaxLen == 4         \* longest path / prefix explored by the matcher
MaxRoutes == 3      \* longest configured route list
MaxTime == 3        \* the clock runs 0..MaxTime
MaxPending == 1     \* most removals scheduled and not yet run, per session id
MaxOriginLen == 3   \* longest Origin header explored by the CORS policy
MaxOrigins == 2     \* longest CORS allow-list

(***************************************************************************)
(* Strings                                                                 *)
(***************************************************************************)
Alphabet == {"/", "a", "b"}

RECURSIVE StrsOfLen(_)
StrsOfLen(n) ==
    IF n = 0 THEN {<<>>}
    ELSE {Append(s, c) : s \in StrsOfLen(n - 1), c \in Alphabet}

Strs == UNION {StrsOfLen(n) : n \in 0..MaxLen}

\* A request path as net/http delivers it: empty, or starting with "/".
RequestPaths == {s \in Strs : s = <<>> \/ s[1] = "/"}

HasPrefix(s, p) == Len(p) <= Len(s) /\ SubSeq(s, 1, Len(p)) = p

HasSuffix(s, x) == Len(x) <= Len(s) /\ SubSeq(s, Len(s) - Len(x) + 1, Len(s)) = x

TrimPrefix(s, p) == IF HasPrefix(s, p) THEN SubSeq(s, Len(p) + 1, Len(s)) ELSE s

TrimSuffix(s, x) == IF HasSuffix(s, x) THEN SubSeq(s, 1, Len(s) - Len(x)) ELSE s

Slash == <<"/">>

(***************************************************************************)
(* Route table                                                             *)
(***************************************************************************)

\* mutant of pathMatches: plain string prefix test, no segment boundary
pathMatchesNoBoundary(path, prefix) ==
    prefix = Slash \/ HasPrefix(path, prefix)

pathMatches(path, prefix) ==
    IF prefix = Slash THEN TRUE
    ELSE LET prefix2 == IF ~HasSuffix(prefix, Slash) THEN prefix \o Slash ELSE prefix
             pathForComparison == IF ~HasSuffix(path, Slash) THEN path \o Slash ELSE path
         IN  HasPrefix(pathForComparison, prefix2) \/ path = TrimSuffix(prefix2, Slash)

Swap(rs, j) == [rs EXCEPT ![j] = rs[j + 1], ![j + 1] = rs[j]]

\* variant of the inner loop of sortRoutes that also swaps neighbours of
\* equal prefix length
RECURSIVE sortInnerSwapsEqual(_, _, _)
sortInnerSwapsEqual(rs, j, lim) ==
    IF j > lim THEN rs
    ELSE sortInnerSwapsEqual(IF Len(rs[j].PathPrefix) <= Len(rs[j + 1].PathPrefix)
                             THEN Swap(rs, j) ELSE rs,
                             j + 1, lim)

RECURSIVE sortInner(_, _, _)
sortInner(rs, j, lim) ==
    IF j > lim THEN rs
    ELSE sortInner(IF Len(rs[j].PathPrefix) < Len(rs[j + 1].PathPrefix)
                   THEN Swap(rs, j) ELSE rs,
                   j + 1, lim)

RECURSIVE sortOuter(_, _)
sortOuter(rs, i) ==
    IF i >= Len(rs) - 1 THEN rs
    ELSE sortOuter(sortInner(rs, 1, Len(rs) - i - 1), i + 1)

\* mutant of sortRoutes: the table keeps the configuration order
sortRoutesUnsorted(rs) == rs

sortRoutes(rs) == sortOuter(rs, 0)

\* The route built for configuration entry k.  Proxy is the director closure:
\* its own upstream, and the routeConfig variable it captured, which is the
\* loop variable: entry k's when each iteration has its own variable, the
\* last entry's when the loop has one variable for all iterations.
NewRoute(rcs, k, shared) ==
    [PathPrefix  |-> rcs[k].Path,
     UpstreamURL |-> rcs[k].UpstreamURL,
     StripPath   |-> rcs[k].StripPath,
     Proxy       |-> [upstreamURL |-> rcs[k].UpstreamURL,
                      routeConfig |-> IF shared THEN rcs[Len(rcs)] ELSE rcs[k]]]

\* Hosts with which url.Parse rejects a URL ("invalid character in host name").
InvalidHosts == {"a b"}

\* url.Parse: the parsed URL, Nil when it returns an error
urlParse(rawURL) == IF rawURL.Host \in InvalidHosts THEN Nil ELSE rawURL

\* The positions of rcs whose upstream URL url.Parse accepts, in order.
RECURSIVE ParsableFrom(_, _)
ParsableFrom(rcs, k) ==
    IF k > Len(rcs) THEN <<>>
    ELSE IF urlParse(rcs[k].UpstreamURL) = Nil THEN ParsableFrom(rcs, k + 1)
    ELSE <<rcs[k]>> \o ParsableFrom(rcs, k + 1)

\* variant of NewMultiProxyMiddleware that leaves out the entries whose URL
\* does not parse
NewMultiProxyMiddlewareSkipsBad(cfg, shared) ==
    LET rcs == ParsableFrom(cfg.UpstreamRoutes, 1)
    IN  [err |-> FALSE,
         routes |-> sortRoutes([k \in 1..Len(rcs) |-> NewRoute(rcs, k, shared)])]

\* NewMultiProxyMiddleware: what it returns, the error (the first entry whose
\* upstream URL does not parse ends the loop) or the middleware with its
\* sorted route table.
NewMultiProxyMiddleware(cfg, shared) ==
    IF \E k \in 1..Len(cfg.UpstreamRoutes) :
           urlParse(cfg.UpstreamRoutes[k].UpstreamURL) = Nil
    THEN [err |-> TRUE, routes |-> <<>>]
    ELSE [err |-> FALSE,
          routes |-> sortRoutes([k \in 1..Len(cfg.UpstreamRoutes) |->
                                    NewRoute(cfg.UpstreamRoutes, k, shared)])]

RECURSIVE findRouteFrom(_, _, _)
findRouteFrom(rs, path, k) ==
    IF k > Len(rs) THEN Nil
    ELSE IF pathMatches(path, rs[k].PathPrefix) THEN rs[k]
    ELSE findRouteFrom(rs, path, k + 1)

RECURSIVE findRouteLastFrom(_, _, _)
findRouteLastFrom(rs, path, k) ==
    IF k < 1 THEN Nil
    ELSE IF pathMatches(path, rs[k].PathPrefix) THEN rs[k]
    ELSE findRouteLastFrom(rs, path, k - 1)

\* mutant of findRoute: scans the table from its end
findRouteLast(rs, path) == findRouteLastFrom(rs, path, Len(rs))

findRoute(rs, path) == findRouteFrom(rs, path, 1)

(***************************************************************************)
(* Requests, headers and the per-route director                            *)
(***************************************************************************)
Absent == <<>>                      \* a header that is not set
Plain(v) == <<v>>                   \* a header set to the string v
Bearer(token) == <<"Bearer ", token>>

AuthHeaders == {"X-Auth-User", "X-Auth-Email", "X-Auth-Name", "X-Auth-Username", "Authorization"}
HopHeaders == {"Connection", "Proxy-Connection", "Te", "Trailer", "Upgrade"}
HeaderNames == AuthHeaders \cup HopHeaders

NoHeaders == [h \in HeaderNames |-> Absent]

\* context.Background(): no user, no access token
EmptyCtx == [user |-> Nil, accessToken |-> ""]

SetUserInContext(ctx, userInfo) == [ctx EXCEPT !.user = userInfo]
SetAccessTokenInContext(ctx, accessToken) == [ctx EXCEPT !.accessToken = accessToken]
GetUserFromContext(ctx) == ctx.user
GetAccessTokenFromContext(ctx) == ctx.accessToken

\* variant of addAuthHeaders that leaves alone a header the request
\* already carries
addAuthHeadersKeepsSent(hdr, ctx) ==
    LET userInfo == GetUserFromContext(ctx)
        accessToken == GetAccessTokenFromContext(ctx)
        put(h, name, v) == IF h[name] = Absent THEN [h EXCEPT ![name] = v] ELSE h
        h1 == IF userInfo # Nil
              THEN put(put(put(put(hdr, "X-Auth-User", Plain(userInfo.Sub)),
                               "X-Auth-Email", Plain(userInfo.Email)),
                           "X-Auth-Name", Plain(userInfo.Name)),
                       "X-Auth-Username", Plain(userInfo.PreferredUsername))
              ELSE hdr
    IN  IF accessToken # "" THEN put(h1, "Authorization", Bearer(accessToken)) ELSE h1

addAuthHeaders(hdr, ctx) ==
    LET userInfo == GetUserFromContext(ctx)
        accessToken == GetAccessTokenFromContext(ctx)
        h1 == IF userInfo # Nil
              THEN [hdr EXCEPT !["X-Auth-User"] = Plain(userInfo.Sub),
                               !["X-Auth-Email"] = Plain(userInfo.Email),
                               !["X-Auth-Name"] = Plain(userInfo.Name),
                               !["X-Auth-Username"] = Plain(userInfo.PreferredUsername)]
              ELSE hdr
    IN  IF accessToken # "" THEN [h1 EXCEPT !["Authorization"] = Bearer(accessToken)] ELSE h1

\* httputil.NewSingleHostReverseProxy's director: the target's path joined
\* with the request's path by exactly one slash.
singleJoiningSlash(a, b) ==
    LET aslash == HasSuffix(a, Slash)
        bslash == HasPrefix(b, Slash)
    IN  IF aslash /\ bslash THEN a \o Tail(b)
        ELSE IF ~aslash /\ ~bslash THEN a \o Slash \o b
        ELSE a \o b

\* proxy.Director of one route: proxy is the closure (its upstream and the
\* routeConfig variable it captured), req the inbound request.
Director(proxy, req) ==
    LET path1 == singleJoiningSlash(proxy.upstreamURL.Path, req.Path)
        hdr1 == addAuthHeaders(req.Header, req.ctx)
        rc == proxy.routeConfig
        path2 == IF rc.StripPath /\ rc.Path # Slash
                 THEN LET t == TrimPrefix(path1, TrimSuffix(rc.Path, Slash))
                      IN  IF t = <<>> THEN Slash ELSE t
                 ELSE path1
    IN  [Host   |-> proxy.upstreamURL.Host,
         Path   |-> path2,
         Header |-> [h \in HeaderNames |-> IF h \in HopHeaders THEN Absent ELSE hdr1[h]]]

\* Origins and allow-list entries are strings of one-character strings.
Star == <<"*">>
StarDot == <<"*", ".">>

CORSHeaders ==
    {"Access-Control-Allow-Origin", "Access-Control-Allow-Methods",
     "Access-Control-Allow-Headers", "Access-Control-Allow-Credentials",
     "Access-Control-Max-Age"}

\* A response on which no CORS header was set.
NoCORS == [h \in CORSHeaders |-> Absent]

\* The loop of isOriginAllowed from entry k on.
isOriginAllowedFrom(allowedOrigins, origin, k) ==
    \E i \in k..Len(allowedOrigins) :
        LET allowed == allowedOrigins[i]
        IN  \/ allowed = Star
            \/ allowed = origin
            \/ /\ HasPrefix(allowed, StarDot)
               /\ HasSuffix(origin, TrimPrefix(allowed, StarDot))

\* variant of isOriginAllowed that accepts no origin at all
isOriginAllowedNever(allowedOrigins, origin) == FALSE

isOriginAllowed(allowedOrigins, origin) ==
    IF origin = <<>> THEN FALSE
    ELSE isOriginAllowedFrom(allowedOrigins, origin, 1)

\* addCORSHeaders: the CORS headers the router sets on the response.
addCORSHeaders(cfg, req) ==
    LET origin == req.Origin
        allowOrigin ==
            IF isOriginAllowed(cfg.AllowedOrigins, origin) THEN Plain(origin)
            ELSE IF Len(cfg.AllowedOrigins) = 1 /\ cfg.AllowedOrigins[1] = Star
                 THEN Plain(Star)
                 ELSE Absent
    IN  [h \in CORSHeaders |->
            IF h = "Access-Control-Allow-Origin" THEN allowOrigin
            ELSE IF h = "Access-Control-Allow-Methods"
                 THEN Plain("GET, POST, PUT, DELETE, OPTIONS")
            ELSE IF h = "Access-Control-Allow-Headers"
                 THEN Plain("Content-Type, Authorization, X-Requested-With")
            ELSE IF h = "Access-Control-Allow-Credentials" THEN Plain("true")
            ELSE Plain("86400")]

\* variant of MultiProxyMiddleware.Handler that sends a request no route
\* matches to the first route of the table
ProxyHandlerFirstRouteDefault(cfg, rs, req) ==
    LET found == findRoute(rs, req.Path)
        route == IF found = Nil THEN rs[1] ELSE found
    IN  IF req.Method = "OPTIONS"
        THEN [kind |-> "preflight", status |-> 200, route |-> Nil, outReq |-> Nil,
              cors |-> addCORSHeaders(cfg, req)]
        ELSE [kind |-> "forwarded", status |-> 200, route |-> route,
              outReq |-> Director(route.Proxy, req), cors |-> addCORSHeaders(cfg, req)]

\* MultiProxyMiddleware.Handler: the response to req.
ProxyHandler(cfg, rs, req) ==
    LET cors == addCORSHeaders(cfg, req)
    IN  IF req.Method = "OPTIONS"
        THEN [kind |-> "preflight", status |-> 200, route |-> Nil, outReq |-> Nil,
              cors |-> cors]
        ELSE LET route == findRoute(rs, req.Path)
             IN  IF route = Nil
                 THEN [kind |-> "notfound", status |-> 404, route |-> Nil,
                       outReq |-> Nil, cors |-> cors]
                 ELSE [kind |-> "forwarded", status |-> 200, route |-> route,
                       outReq |-> Director(route.Proxy, req), cors |-> cors]

(***************************************************************************)
(* Session store                                                           *)
(***************************************************************************)
SessionIDs == {"s1", "s2"}

Users ==
    { [Sub |-> "alice", Name |-> "Alice", Email |-> "alice@x", PreferredUsername |-> "al"],
      [Sub |-> "bob", Name |-> "Bob", Email |-> "bob@x", PreferredUsername |-> "bo"] }

UserOf(sub) == CHOOSE u \in Users : u.Sub = sub

SessionData(userInfo, accessToken, expiresAt, state) ==
    [UserInfo |-> userInfo, AccessToken |-> accessToken, ExpiresAt |-> expiresAt, State |-> state]

\* time.Time.Before
Before(t, u) == t < u

\* mutant of MemorySessionStore.Get: no expiry check
GetNoExpiryCheck(ss, sessionID, t) ==
    IF ss[sessionID] = Nil
    THEN [data |-> Nil, err |-> "session not found", spawn |-> FALSE]
    ELSE [data |-> ss[sessionID], err |-> "", spawn |-> FALSE]

\* mutant of MemorySessionStore.Get: a record expiring exactly now is expired
GetExpiredAtEqual(ss, sessionID, t) ==
    IF ss[sessionID] = Nil
    THEN [data |-> Nil, err |-> "session not found", spawn |-> FALSE]
    ELSE IF ~Before(t, ss[sessionID].ExpiresAt)
    THEN [data |-> Nil, err |-> "session expired", spawn |-> TRUE]
    ELSE [data |-> ss[sessionID], err |-> "", spawn |-> FALSE]

\* MemorySessionStore.Get at clock reading t: the returned data and error,
\* and whether it started the goroutine that removes the entry.
Get(ss, sessionID, t) ==
    IF ss[sessionID] = Nil
    THEN [data |-> Nil, err |-> "session not found", spawn |-> FALSE]
    ELSE IF Before(ss[sessionID].ExpiresAt, t)
    THEN [data |-> Nil, err |-> "session expired", spawn |-> TRUE]
    ELSE [data |-> ss[sessionID], err |-> "", spawn |-> FALSE]

Set(ss, sessionID, data) == [ss EXCEPT ![sessionID] = data]

\* mutant of MemorySessionStore.Delete: the entry stays
DeleteKeeps(ss, sessionID) == ss

Delete(ss, sessionID) == [ss EXCEPT ![sessionID] = Nil]

\* variant of the sweep pass that deletes nothing
SweepNothing(ss, t) == ss

\* variant of the sweep pass that also deletes the entries expiring at t
SweepAtEqual(ss, t) ==
    [id \in DOMAIN ss |-> IF ss[id] # Nil /\ ss[id].ExpiresAt <= t THEN Nil ELSE ss[id]]

\* one pass of cleanupExpiredSessions with the clock read as t
Sweep(ss, t) ==
    [id \in DOMAIN ss |-> IF ss[id] # Nil /\ Before(ss[id].ExpiresAt, t) THEN Nil ELSE ss[id]]

\* the goroutine Get starts on an expired entry
Spawned(pd, sessionID, spawn) ==
    IF spawn THEN [pd EXCEPT ![sessionID] = @ + 1] ELSE pd

Deleted == [deleted |-> TRUE]

\* The goroutines that use the store: two request goroutines, the cleanup
\* goroutine NewMemorySessionStore starts, and the goroutine Get starts for
\* an expired entry.
Callers == {"c1", "c2"}
Sweeper == "sweeper"
Remover == "remover"
Goroutines == Callers \cup {Sweeper, Remover}

\* A goroutine that is in no call.
IdleThread == [op |-> "idle", pc |-> "idle", id |-> "", data |-> Nil]

\* The cleanup goroutine blocked in its select.
AtSelect == [op |-> "cleanupExpiredSessions", pc |-> "select", id |-> "", data |-> Nil]

\* sync.RWMutex, unlocked.
Unlocked == [writer |-> "", readers |-> {}]

NewStore ==
    /\ sessions = [id \in SessionIDs |-> Nil]
    /\ pending = [id \in SessionIDs |-> 0]
    /\ now = 0
    /\ lastPut = [id \in SessionIDs |-> Nil]
    /\ mu = Unlocked
    /\ threads = [g \in Goroutines |-> IF g = Sweeper THEN AtSelect ELSE IdleThread]
    /\ ticker = [stopped |-> FALSE, tick |-> FALSE]

(***************************************************************************)
(* Configurations                                                          *)
(***************************************************************************)
URL(host, path) == [Host |-> host, Path |-> path]

UpstreamRoute(path, url, strip) == [Path |-> path, UpstreamURL |-> url, StripPath |-> strip]

RouteChoices ==
    { UpstreamRoute(<<"/">>, URL("frontend", <<>>), FALSE),
      UpstreamRoute(<<"/", "a">>, URL("api", <<>>), FALSE),
      UpstreamRoute(<<"/", "a">>, URL("api2", <<>>), TRUE),
      UpstreamRoute(<<"/", "a", "/", "b">>, URL("scl", <<>>), TRUE),
      UpstreamRoute(<<"/", "a", "/">>, URL("apis", <<>>), TRUE),
      UpstreamRoute(<<"/", "b">>, URL("location", <<"/", "v">>), TRUE) }

RouteLists == UNION {[1..n -> RouteChoices] : n \in 1..MaxRoutes}

MaxAgeChoices == {1, 2}

\* The route list of TestMultiProxyRouting, one letter per segment.
DemoRoutes ==
    << UpstreamRoute(<<"/", "a", "/", "b">>, URL("scl", <<>>), TRUE),
       UpstreamRoute(<<"/", "a">>, URL("api", <<>>), FALSE),
       UpstreamRoute(<<"/">>, URL("frontend", <<>>), FALSE) >>

\* The shortest session secret validate accepts.
MinSecretLen == 32

\* A session secret of n characters.
SecretOfLen(n) == [i \in 1..n |-> "x"]

\* variant of validate without the test of the secret's length
validateAnySecretLength(c) ==
    IF \/ c.OIDCProviderURL = ""
       \/ c.OIDCClientID = ""
       \/ c.OIDCClientSecret = ""
       \/ c.OIDCRedirectURL = ""
       \/ c.SessionSecret = <<>>
    THEN "required configuration is not set"
    ELSE IF Len(c.UpstreamRoutes) = 0 THEN "no upstream routes configured"
    ELSE ""

\* Config.validate: the error it returns, "" for none.
validate(c) ==
    IF \/ c.OIDCProviderURL = ""
       \/ c.OIDCClientID = ""
       \/ c.OIDCClientSecret = ""
       \/ c.OIDCRedirectURL = ""
       \/ c.SessionSecret = <<>>
    THEN "required configuration is not set"
    ELSE IF Len(c.UpstreamRoutes) = 0 THEN "no upstream routes configured"
    ELSE IF Len(c.SessionSecret) < MinSecretLen
    THEN "session secret must be at least 32 characters long"
    ELSE ""

Config(rs, maxAge) ==
    [UpstreamRoutes    |-> rs,
     SessionMaxAge     |-> maxAge,
     SessionCookieName |-> "compas-session",
     OIDCProviderURL   |-> "https://idp",
     OIDCClientID      |-> "compas-client",
     OIDCClientSecret  |-> "client-secret",
     OIDCRedirectURL   |-> "http://gw/auth/callback",
     SessionSecret     |-> SecretOfLen(MinSecretLen),
     OIDCScopes        |-> <<"openid", "profile", "email">>,
     AllowedOrigins    |-> <<Star>>]

\* What discoverProvider stored from the provider's metadata document.
ProviderConfig ==
    [AuthorizationEndpoint |-> "https://idp/authorize",
     TokenEndpoint         |-> "https://idp/token",
     UserInfoEndpoint      |-> "https://idp/userinfo"]

(***************************************************************************)
(* Specification of the matcher: pathMatches on every path and prefix      *)
(***************************************************************************)
NoOp == [op |-> "none"]

\* out holds the outcome of one operation at a time: an operation is recorded
\* when out is clear, and Completed clears it again.
Idle == out = NoOp

MatchInit ==
    /\ config = Config(DemoRoutes, 1)
    /\ loopVarShared = TRUE
    /\ routes = NewMultiProxyMiddleware(config, loopVarShared).routes
    /\ NewStore
    /\ out = NoOp

CallPathMatches ==
    /\ out = NoOp
    /\ \E path \in Strs, prefix \in Strs :
         out' = [op |-> "pathMatches", path |-> path, prefix |-> prefix,
                 res |-> pathMatches(path, prefix)]
    /\ UNCHANGED <<mu, threads, ticker, config, loopVarShared, routes, sessions, pending, now, lastPut>>

MatchNext == CallPathMatches

MatchSpec == MatchInit /\ [][MatchNext]_vars

(***************************************************************************)
(* Specification of the route table: every route list, every request path  *)
(***************************************************************************)
ClientRequest(method, path) ==
    [Method |-> method, Path |-> path, Cookie |-> "", Origin |-> <<>>,
     Header |-> NoHeaders, ctx |-> EmptyCtx]

RouteInit ==
    /\ config \in {Config(rs, 1) : rs \in RouteLists}
    /\ loopVarShared \in BOOLEAN
    /\ routes = NewMultiProxyMiddleware(config, loopVarShared).routes
    /\ NewStore
    /\ out = NoOp

\* A request served by MultiProxyMiddleware.Handler alone.
ServeProxy ==
    /\ out = NoOp
    /\ \E path \in RequestPaths :
         out' = [op |-> "proxy", path |-> path,
                 resp |-> ProxyHandler(config, routes, ClientRequest("GET", path))]
    /\ UNCHANGED <<mu, threads, ticker, config, loopVarShared, routes, sessions, pending, now, lastPut>>

RouteNext == ServeProxy

RouteSpec == RouteInit /\ [][RouteNext]_vars

(***************************************************************************)
(* Specification of the CORS policy: every allow-list, every origin        *)
(***************************************************************************)
OriginAlphabet == {"*", ".", "d"}

RECURSIVE OriginsOfLen(_)
OriginsOfLen(n) ==
    IF n = 0 THEN {<<>>}
    ELSE {<<c>> \o o : c \in OriginAlphabet, o \in OriginsOfLen(n - 1)}

\* The Origin header of a request; <<>> is a request without one.
Origins == UNION {OriginsOfLen(n) : n \in 0..MaxOriginLen}

\* Allow-list entries: the wildcard, an exact origin, a subdomain wildcard,
\* and exact origins that end like the first.
AllowChoices == {Star, <<"d">>, <<"*", ".", "d">>, <<".", "d">>, <<"d", "d">>}

AllowLists == UNION {[1..n -> AllowChoices] : n \in 1..MaxOrigins}

CorsInit ==
    /\ config \in {[Config(DemoRoutes, 1) EXCEPT !.AllowedOrigins = l] : l \in AllowLists}
    /\ loopVarShared = TRUE
    /\ routes = NewMultiProxyMiddleware(config, loopVarShared).routes
    /\ NewStore
    /\ out = NoOp

\* A request served by MultiProxyMiddleware.Handler alone, with an Origin.
ServeWithOrigin ==
    /\ out = NoOp
    /\ \E method \in {"GET", "OPTIONS"}, origin \in Origins :
         LET req == [ClientRequest(method, <<"/">>) EXCEPT !.Origin = origin]
         IN  out' = [op |-> "cors", method |-> method, origin |-> origin,
                     resp |-> ProxyHandler(config, routes, req)]
    /\ UNCHANGED <<mu, threads, ticker, config, loopVarShared, routes, sessions, pending, now, lastPut>>

CorsNext == ServeWithOrigin

CorsSpec == CorsInit /\ [][CorsNext]_vars

(***************************************************************************)
(* OIDC middleware                                                         *)
(***************************************************************************)
HealthPath == <<"/", "health">>
OIDCCallbackPath == <<"/", "oidc", "/", "callback">>
LogoutPath == <<"/", "auth", "/", "logout">>
AuthCallbackPath == <<"/", "auth", "/", "callback">>
UserinfoPath == <<"/", "auth", "/", "userinfo">>

Redirect(url, query, setCookie, kind) ==
    [kind |-> kind, status |-> 302, location |-> [url |-> url, query |-> query],
     setCookie |-> setCookie, route |-> Nil, outReq |-> Nil, cors |-> NoCORS]

HttpError(status, kind) ==
    [kind |-> kind, status |-> status, location |-> Nil,
     setCookie |-> Nil, route |-> Nil, outReq |-> Nil, cors |-> NoCORS]

\* redirectToLogin with the state value generateState produced
redirectToLogin(cfg, state) ==
    Redirect(ProviderConfig.AuthorizationEndpoint,
             [client_id     |-> cfg.OIDCClientID,
              response_type |-> "code",
              scope         |-> cfg.OIDCScopes,
              redirect_uri  |-> cfg.OIDCRedirectURL,
              state         |-> state],
             Nil, "login")

\* getSessionID: the session cookie's value, "" without the cookie
getSessionID(req) == req.Cookie

\* mutant of authCheck: a stored record is accepted without any expiry test
authCheckIgnoresExpiry(ss, sessionID, t1, t2) ==
    IF sessionID = "" THEN [next |-> FALSE, data |-> Nil, spawn |-> FALSE]
    ELSE IF ss[sessionID] = Nil THEN [next |-> FALSE, data |-> Nil, spawn |-> FALSE]
    ELSE [next |-> TRUE, data |-> ss[sessionID], spawn |-> FALSE]

\* The authentication check of OIDCMiddleware.Handler: whether the request
\* goes on to next, with which session data, and whether Get started a
\* removal.  Get reads the clock as t1, the handler's own expiry test reads
\* it again as t2.
authCheck(ss, sessionID, t1, t2) ==
    IF sessionID = "" THEN [next |-> FALSE, data |-> Nil, spawn |-> FALSE]
    ELSE LET g == Get(ss, sessionID, t1)
         IN  IF g.err # "" \/ g.data = Nil \/ Before(g.data.ExpiresAt, t2)
             THEN [next |-> FALSE, data |-> Nil, spawn |-> g.spawn]
             ELSE [next |-> TRUE, data |-> g.data, spawn |-> g.spawn]

\* variant of handleLogout that clears the cookie and leaves the store alone
handleLogoutKeepsSession(cfg, ss, req) ==
    [sessions |-> ss,
     resp |-> Redirect("/", Nil,
                       [Name |-> cfg.SessionCookieName, Value |-> "", Path |-> "/",
                        MaxAge |-> -1, HttpOnly |-> TRUE, SameSite |-> ""],
                       "logout")]

\* handleLogout: the store afterwards and the response
handleLogout(cfg, ss, req) ==
    LET sessionID == getSessionID(req)
    IN  [sessions |-> IF sessionID # "" THEN Delete(ss, sessionID) ELSE ss,
         resp |-> Redirect("/", Nil,
                           [Name |-> cfg.SessionCookieName, Value |-> "", Path |-> "/",
                            MaxAge |-> -1, HttpOnly |-> TRUE, SameSite |-> ""],
                           "logout")]

\* OIDCMiddleware.Handler(next), with the router's handler as next: the
\* response, the store afterwards and whether Get started a removal.  state
\* is the value generateState produces for a login redirect.
\* variant of Handler that renews the session it accepts: the record expires
\* a full lifetime after this request
HandlerRenews(cfg, rs, ss, req, t1, t2, state) ==
    IF req.Path = HealthPath \/ req.Path = OIDCCallbackPath
    THEN [resp |-> ProxyHandler(cfg, rs, req), sessions |-> ss, spawn |-> FALSE]
    ELSE IF req.Path = LogoutPath
    THEN LET l == handleLogout(cfg, ss, req)
         IN  [resp |-> l.resp, sessions |-> l.sessions, spawn |-> FALSE]
    ELSE LET check == authCheck(ss, getSessionID(req), t1, t2)
         IN  IF ~check.next
             THEN [resp |-> redirectToLogin(cfg, state), sessions |-> ss,
                   spawn |-> check.spawn]
             ELSE LET ctx == SetAccessTokenInContext(
                                 SetUserInContext(req.ctx, check.data.UserInfo),
                                 check.data.AccessToken)
                  IN  [resp |-> ProxyHandler(cfg, rs, [req EXCEPT !.ctx = ctx]),
                       sessions |-> Set(ss, getSessionID(req),
                                        [check.data EXCEPT
                                            !.ExpiresAt = t2 + cfg.SessionMaxAge]),
                       spawn |-> check.spawn]

\* variant of Handler that stores a record holding the generated state when
\* it redirects to the login
HandlerStoresAtLogin(cfg, rs, ss, req, t1, t2, state) ==
    IF req.Path = HealthPath \/ req.Path = OIDCCallbackPath
    THEN [resp |-> ProxyHandler(cfg, rs, req), sessions |-> ss, spawn |-> FALSE]
    ELSE IF req.Path = LogoutPath
    THEN LET l == handleLogout(cfg, ss, req)
         IN  [resp |-> l.resp, sessions |-> l.sessions, spawn |-> FALSE]
    ELSE LET check == authCheck(ss, getSessionID(req), t1, t2)
         IN  IF ~check.next
             THEN [resp |-> redirectToLogin(cfg, state),
                   sessions |-> Set(ss, CHOOSE id \in SessionIDs : TRUE,
                                    SessionData(Nil, "", t2 + cfg.SessionMaxAge, state)),
                   spawn |-> check.spawn]
             ELSE LET ctx == SetAccessTokenInContext(
                                 SetUserInContext(req.ctx, check.data.UserInfo),
                                 check.data.AccessToken)
                  IN  [resp |-> ProxyHandler(cfg, rs, [req EXCEPT !.ctx = ctx]),
                       sessions |-> ss, spawn |-> check.spawn]

Handler(cfg, rs, ss, req, t1, t2, state) ==
    IF req.Path = HealthPath \/ req.Path = OIDCCallbackPath
    THEN [resp |-> ProxyHandler(cfg, rs, req), sessions |-> ss, spawn |-> FALSE]
    ELSE IF req.Path = LogoutPath
    THEN LET l == handleLogout(cfg, ss, req)
         IN  [resp |-> l.resp, sessions |-> l.sessions, spawn |-> FALSE]
    ELSE LET check == authCheck(ss, getSessionID(req), t1, t2)
         IN  IF ~check.next
             THEN [resp |-> redirectToLogin(cfg, state), sessions |-> ss,
                   spawn |-> check.spawn]
             ELSE LET ctx == SetAccessTokenInContext(
                                 SetUserInContext(req.ctx, check.data.UserInfo),
                                 check.data.AccessToken)
                  IN  [resp |-> ProxyHandler(cfg, rs, [req EXCEPT !.ctx = ctx]),
                       sessions |-> ss, spawn |-> check.spawn]

\* What the HTTP client returns for a provider call: a transport error, or
\* a response with a status code and a body, a body being a decoded JSON
\* value or undecodable.
Undecodable == [undecodable |-> TRUE]
TransportError == [err |-> TRUE, StatusCode |-> 0, Body |-> Undecodable]
Response(status, body) == [err |-> FALSE, StatusCode |-> status, Body |-> body]

\* exchangeCodeForToken: the token response, Nil when it returns an error
exchangeCodeForToken(answer) ==
    IF answer.err THEN Nil
    ELSE IF answer.StatusCode # 200 THEN Nil
    ELSE IF answer.Body = Undecodable THEN Nil
    ELSE answer.Body

\* getUserInfo: the user info, Nil when it returns an error
getUserInfo(answer) ==
    IF answer.err THEN Nil
    ELSE IF answer.StatusCode # 200 THEN Nil
    ELSE IF answer.Body = Undecodable THEN Nil
    ELSE answer.Body

\* variant of setSessionCookie without a max-age
setSessionCookieNoMaxAge(cfg, sessionID) ==
    [Name |-> cfg.SessionCookieName, Value |-> sessionID, Path |-> "/",
     MaxAge |-> 0, HttpOnly |-> TRUE, SameSite |-> "Lax"]

\* setSessionCookie
setSessionCookie(cfg, sessionID) ==
    [Name |-> cfg.SessionCookieName, Value |-> sessionID, Path |-> "/",
     MaxAge |-> cfg.SessionMaxAge, HttpOnly |-> TRUE, SameSite |-> "Lax"]

\* variant of HandleCallback that stores the session before asking for the
\* user info
HandleCallbackStoresEarly(cfg, ss, q, tokenResp, userInfo, sessionID, t) ==
    IF q.state = ""
    THEN [resp |-> HttpError(400, "callback"), sessions |-> ss, calls |-> <<>>]
    ELSE IF q.code = ""
    THEN [resp |-> HttpError(400, "callback"), sessions |-> ss, calls |-> <<>>]
    ELSE IF tokenResp = Nil
    THEN [resp |-> HttpError(500, "callback"), sessions |-> ss, calls |-> <<"token">>]
    ELSE IF userInfo = Nil
    THEN [resp |-> HttpError(500, "callback"),
          sessions |-> Set(ss, sessionID,
                           SessionData(UserOf("alice"), tokenResp.AccessToken,
                                       t + cfg.SessionMaxAge, q.state)),
          calls |-> <<"token", "userinfo">>]
    ELSE [resp |-> Redirect(IF q.redirect_uri # "" THEN q.redirect_uri ELSE "/", Nil,
                            [Name |-> cfg.SessionCookieName, Value |-> sessionID,
                             Path |-> "/", MaxAge |-> cfg.SessionMaxAge,
                             HttpOnly |-> TRUE, SameSite |-> "Lax"],
                            "callback"),
          sessions |-> Set(ss, sessionID,
                           SessionData(userInfo, tokenResp.AccessToken,
                                       t + cfg.SessionMaxAge, q.state)),
          calls |-> <<"token", "userinfo">>]

\* variant of HandleCallback that asks the token endpoint a second time when
\* the first exchange fails
HandleCallbackRetriesToken(cfg, ss, q, tokenResp, userInfo, sessionID, t) ==
    IF q.state = ""
    THEN [resp |-> HttpError(400, "callback"), sessions |-> ss, calls |-> <<>>]
    ELSE IF q.code = ""
    THEN [resp |-> HttpError(400, "callback"), sessions |-> ss, calls |-> <<>>]
    ELSE IF tokenResp = Nil
    THEN [resp |-> HttpError(500, "callback"), sessions |-> ss,
          calls |-> <<"token", "token">>]
    ELSE IF userInfo = Nil
    THEN [resp |-> HttpError(500, "callback"), sessions |-> ss,
          calls |-> <<"token", "userinfo">>]
    ELSE [resp |-> Redirect(IF q.redirect_uri # "" THEN q.redirect_uri ELSE "/", Nil,
                            setSessionCookie(cfg, sessionID), "callback"),
          sessions |-> Set(ss, sessionID,
                           SessionData(userInfo, tokenResp.AccessToken,
                                       t + cfg.SessionMaxAge, q.state)),
          calls |-> <<"token", "userinfo">>]

\* variant of HandleCallback that accepts only a state generateState yields
HandleCallbackChecksState(cfg, ss, q, tokenResp, userInfo, sessionID, t) ==
    IF q.state \notin {"st1", "st2"}
    THEN [resp |-> HttpError(400, "callback"), sessions |-> ss, calls |-> <<>>]
    ELSE IF q.code = ""
    THEN [resp |-> HttpError(400, "callback"), sessions |-> ss, calls |-> <<>>]
    ELSE IF tokenResp = Nil
    THEN [resp |-> HttpError(500, "callback"), sessions |-> ss, calls |-> <<"token">>]
    ELSE IF userInfo = Nil
    THEN [resp |-> HttpError(500, "callback"), sessions |-> ss,
          calls |-> <<"token", "userinfo">>]
    ELSE [resp |-> Redirect(IF q.redirect_uri # "" THEN q.redirect_uri ELSE "/", Nil,
                            setSessionCookie(cfg, sessionID), "callback"),
          sessions |-> Set(ss, sessionID,
                           SessionData(userInfo, tokenResp.AccessToken,
                                       t + cfg.SessionMaxAge, q.state)),
          calls |-> <<"token", "userinfo">>]

\* variant of HandleCallback that does not look at the code parameter
HandleCallbackNoCodeCheck(cfg, ss, q, tokenResp, userInfo, sessionID, t) ==
    IF q.state = ""
    THEN [resp |-> HttpError(400, "callback"), sessions |-> ss, calls |-> <<>>]
    ELSE IF tokenResp = Nil
    THEN [resp |-> HttpError(500, "callback"), sessions |-> ss, calls |-> <<"token">>]
    ELSE IF userInfo = Nil
    THEN [resp |-> HttpError(500, "callback"), sessions |-> ss,
          calls |-> <<"token", "userinfo">>]
    ELSE [resp |-> Redirect(IF q.redirect_uri # "" THEN q.redirect_uri ELSE "/", Nil,
                            [Name |-> cfg.SessionCookieName, Value |-> sessionID,
                             Path |-> "/", MaxAge |-> cfg.SessionMaxAge,
                             HttpOnly |-> TRUE, SameSite |-> "Lax"],
                            "callback"),
          sessions |-> Set(ss, sessionID,
                           SessionData(userInfo, tokenResp.AccessToken,
                                       t + cfg.SessionMaxAge, q.state)),
          calls |-> <<"token", "userinfo">>]

\* HandleCallback: q is the query (state, code, redirect_uri), tokenResp and
\* userInfo what the provider answers (Nil: the call fails), sessionID what
\* generateSessionID produces, t the clock.  calls lists the requests made
\* to the provider, in order.
HandleCallback(cfg, ss, q, tokenResp, userInfo, sessionID, t) ==
    IF q.state = ""
    THEN [resp |-> HttpError(400, "callback"), sessions |-> ss, calls |-> <<>>]
    ELSE IF q.code = ""
    THEN [resp |-> HttpError(400, "callback"), sessions |-> ss, calls |-> <<>>]
    ELSE IF tokenResp = Nil
    THEN [resp |-> HttpError(500, "callback"), sessions |-> ss, calls |-> <<"token">>]
    ELSE IF userInfo = Nil
    THEN [resp |-> HttpError(500, "callback"), sessions |-> ss,
          calls |-> <<"token", "userinfo">>]
    ELSE [resp |-> Redirect(IF q.redirect_uri # "" THEN q.redirect_uri ELSE "/", Nil,
                            setSessionCookie(cfg, sessionID), "callback"),
          sessions |-> Set(ss, sessionID,
                           SessionData(userInfo, tokenResp.AccessToken,
                                       t + cfg.SessionMaxAge, q.state)),
          calls |-> <<"token", "userinfo">>]

\* http.ServeMux as main registers it: three exact patterns and "/".
Mux(path) ==
    IF path = HealthPath THEN "health"
    ELSE IF path = AuthCallbackPath THEN "callback"
    ELSE IF path = UserinfoPath THEN "userinfo"
    ELSE "root"

(***************************************************************************)
(* Claims about the route table                                            *)
(***************************************************************************)
SameRoute(a, b) ==
    IF a = Nil \/ b = Nil THEN a = Nil /\ b = Nil
    ELSE /\ a.PathPrefix = b.PathPrefix
         /\ a.UpstreamURL = b.UpstreamURL
         /\ a.StripPath = b.StripPath

Matching(rs, path) == {k \in 1..Len(rs) : pathMatches(path, rs[k].PathPrefix)}

\* C7: the route findRoute returns matches the path and no matching route of
\* the table has a longer prefix; it returns none only when no route matches.
C7_LongestPrefixWins ==
    out.op = "proxy" =>
        LET r == out.resp.route
        IN  IF r = Nil THEN Matching(routes, out.path) = {}
            ELSE /\ \E k \in Matching(routes, out.path) : routes[k] = r
                 /\ \A k \in Matching(routes, out.path) :
                        Len(routes[k].PathPrefix) <= Len(r.PathPrefix)

\* Two routes match, the shorter one is configured first, the longer one is selected.
C7_Witness ==
    /\ out.op = "proxy"
    /\ out.resp.route # Nil
    /\ Len(config.UpstreamRoutes) >= 2
    /\ pathMatches(out.path, config.UpstreamRoutes[1].Path)
    /\ Len(config.UpstreamRoutes[1].Path) < Len(config.UpstreamRoutes[2].Path)
    /\ out.resp.route.PathPrefix = config.UpstreamRoutes[2].Path

DistinctPrefixes(rcs) ==
    \A i, j \in 1..Len(rcs) : i # j => rcs[i].Path # rcs[j].Path

Permute(rcs, f) == [k \in 1..Len(rcs) |-> rcs[f[k]]]

\* C8: with pairwise distinct prefixes, the route selected for a path is the
\* same for every order in which the routes are listed in the configuration.
C8_OrderIndependent ==
    (out.op = "proxy" /\ DistinctPrefixes(config.UpstreamRoutes)) =>
        \A f \in Permutations(1..Len(config.UpstreamRoutes)) :
            SameRoute(out.resp.route,
                      findRoute(NewMultiProxyMiddleware(
                                    Config(Permute(config.UpstreamRoutes, f), config.SessionMaxAge),
                                    loopVarShared).routes,
                                out.path))

\* Three routes with distinct prefixes all match, listed shortest first.
C8_Witness ==
    /\ out.op = "proxy"
    /\ Len(config.UpstreamRoutes) = 3
    /\ DistinctPrefixes(config.UpstreamRoutes)
    /\ \A k \in 1..3 : pathMatches(out.path, config.UpstreamRoutes[k].Path)
    /\ Len(config.UpstreamRoutes[1].Path) < Len(config.UpstreamRoutes[2].Path)
    /\ Len(config.UpstreamRoutes[2].Path) < Len(config.UpstreamRoutes[3].Path)
    /\ out.resp.route # Nil
    /\ out.resp.route.PathPrefix = config.UpstreamRoutes[3].Path

Trim1(s) == TrimSuffix(s, Slash)

\* The matching rule as the claim words it.
ClaimedMatch(path, prefix) ==
    \/ prefix = Slash
    \/ Trim1(path) = Trim1(prefix)
    \/ HasPrefix(path, Trim1(prefix) \o Slash)

\* C9 as stated: pathMatches(path, P) is true exactly when P is "/", or path
\* equals P after removing one trailing slash from each, or path begins with
\* P (without trailing slash) followed by "/".
C9_MatchesAsStated ==
    out.op = "pathMatches" => (out.res <=> ClaimedMatch(out.path, out.prefix))

\* C9 amended: pathMatches(path, P) is true exactly when P is "/", or path
\* itself equals P without one trailing slash, or path without one trailing
\* slash equals P without one trailing slash, or path begins with P (without
\* trailing slash) followed by "/".  A path that continues the last segment
\* of P without a slash does not match, a path shorter than P (without
\* trailing slash) does not match, and "/" matches every path.
C9_MatchesAmended ==
    out.op = "pathMatches" =>
        LET path == out.path
            prefix == out.prefix
        IN  /\ out.res <=> (\/ ClaimedMatch(path, prefix)
                            \/ path = Trim1(prefix))
            /\ prefix = Slash => out.res
            /\ (prefix # Slash /\ Len(path) < Len(Trim1(prefix))) => ~out.res
            /\ (/\ prefix # <<>>
                /\ ~HasSuffix(prefix, Slash)
                /\ Len(path) = Len(prefix) + 1
                /\ HasPrefix(path, prefix)
                /\ ~HasSuffix(path, Slash)) => ~out.res

\* "/ab" against the prefix "/a": the last segment continues without a slash.
C9_Witness ==
    /\ out.op = "pathMatches"
    /\ out.prefix = <<"/", "a">>
    /\ out.path = <<"/", "a", "b">>
    /\ ~out.res

\* The forwarded path the claim describes for a route's own prefix and flag.
ExpectedForwardPath(path, prefix, strip) ==
    IF strip
    THEN LET t == TrimPrefix(path, Trim1(prefix))
         IN  IF t = <<>> THEN Slash ELSE t
    ELSE path

\* C10 as stated: in a table of several routes, the path forwarded through
\* the matched route is computed from that route's own prefix and stripPrefix
\* flag (prefix removed and "" replaced by "/" when the flag is set, the
\* original path otherwise).  Stated for a non-empty request path and an
\* upstream URL without a path of its own.
C10_ForwardedPathFromOwnRoute ==
    (/\ out.op = "proxy"
     /\ out.resp.kind = "forwarded"
     /\ Len(routes) > 1
     /\ out.path # <<>>
     /\ out.resp.route.UpstreamURL.Path = <<>>) =>
        out.resp.outReq.Path =
            ExpectedForwardPath(out.path, out.resp.route.PathPrefix, out.resp.route.StripPath)

(***************************************************************************)
(* Specification of the session store used through its interface           *)
(***************************************************************************)
StoreData ==
    {SessionData(UserOf(sub), "t1", e, "st") : sub \in {"alice", "bob"}, e \in 0..MaxTime}

StoreInit ==
    /\ config = Config(DemoRoutes, 1)
    /\ loopVarShared = TRUE
    /\ routes = NewMultiProxyMiddleware(config, loopVarShared).routes
    /\ NewStore
    /\ out = NoOp

Tick ==
    /\ Idle
    /\ now < MaxTime
    /\ now' = now + 1
    /\ UNCHANGED <<mu, threads, ticker, config, loopVarShared, routes, sessions, pending, lastPut, out>>

CallSet ==
    \E id \in SessionIDs, data \in StoreData :
        /\ Idle
        /\ sessions' = Set(sessions, id, data)
        /\ lastPut' = [lastPut EXCEPT ![id] = data]
        /\ out' = [op |-> "Set", id |-> id, err |-> ""]
        /\ UNCHANGED <<mu, threads, ticker, config, loopVarShared, routes, pending, now>>

CallGet ==
    \E id \in SessionIDs :
        LET r == Get(sessions, id, now)
        IN  /\ Idle
            /\ r.spawn => pending[id] < MaxPending
            /\ pending' = Spawned(pending, id, r.spawn)
            /\ out' = [op |-> "Get", id |-> id, data |-> r.data, err |-> r.err,
                       time |-> now, stored |-> sessions[id]]
            /\ UNCHANGED <<mu, threads, ticker, config, loopVarShared, routes, sessions, now, lastPut>>

CallDelete ==
    \E id \in SessionIDs :
        /\ Idle
        /\ sessions' = Delete(sessions, id)
        /\ lastPut' = [lastPut EXCEPT ![id] = Deleted]
        /\ out' = [op |-> "Delete", id |-> id, err |-> "", stored |-> sessions[id],
                   unchanged |-> (sessions' = sessions)]
        /\ UNCHANGED <<mu, threads, ticker, config, loopVarShared, routes, pending, now>>

\* The goroutine started by Get runs: it deletes whatever the id maps to now.
\* variant of the goroutine Get starts that ends without deleting
RunRemovalOfKeeps(id) ==
    /\ Idle
    /\ pending[id] > 0
    /\ pending' = [pending EXCEPT ![id] = @ - 1]
    /\ out' = [op |-> "removal", id |-> id]
    /\ UNCHANGED <<mu, threads, ticker, config, loopVarShared, routes, sessions, now,
                   lastPut>>

\* A goroutine that Get started for id runs.
RunRemovalOf(id) ==
    /\ Idle
    /\ pending[id] > 0
    /\ sessions' = Delete(sessions, id)
    /\ pending' = [pending EXCEPT ![id] = @ - 1]
    /\ out' = [op |-> "removal", id |-> id]
    /\ UNCHANGED <<mu, threads, ticker, config, loopVarShared, routes, now, lastPut>>

RunRemoval == \E id \in SessionIDs : RunRemovalOf(id)

\* The cleanup ticker fires.
RunSweep ==
    /\ Idle
    /\ sessions' = Sweep(sessions, now)
    /\ out' = [op |-> "sweep", time |-> now, before |-> sessions]
    /\ UNCHANGED <<mu, threads, ticker, config, loopVarShared, routes, pending, now, lastPut>>

\* The recorded outcome has been observed.
Completed ==
    /\ ~Idle
    /\ out' = NoOp
    /\ UNCHANGED <<mu, threads, ticker, config, loopVarShared, routes, sessions, pending, now, lastPut>>

StoreNext ==
    \/ Tick
    \/ CallSet
    \/ CallGet
    \/ CallDelete
    \/ RunRemoval
    \/ RunSweep
    \/ Completed

StoreSpec == StoreInit /\ [][StoreNext]_vars

\* The store while it is open: the ticker keeps firing and the cleanup
\* goroutine runs a pass for a tick whenever no other operation is under
\* way, and every operation that has begun completes.  Nothing is assumed
\* of the callers: no Get, Set or Delete need ever happen.
LiveStoreSpec == StoreSpec /\ SF_vars(RunSweep) /\ WF_vars(Completed)

\* The store with its goroutines scheduled fairly: each goroutine Get has
\* started runs when no other operation is under way, and every operation
\* that has begun completes.  Nothing is assumed of the ticker.
LazyStoreSpec ==
    StoreSpec /\ (\A id \in SessionIDs : SF_vars(RunRemovalOf(id))) /\ WF_vars(Completed)

(***************************************************************************)
(* Specification of the store's goroutines: every method from Lock to      *)
(* Unlock, the cleanup goroutine from tick to tick, and Close              *)
(***************************************************************************)

\* Records handed to Set: one that expired a second ago, one that expires
\* in a second.
LockData == {SessionData(UserOf("alice"), "t1", e, "st") : e \in {-1, 1}}

\* The methods that take the read lock, and those that take the write lock.
ReadOps == {"Get", "Size"}
WriteOps == {"Set", "Delete"}

\* sync.RWMutex.RLock returns
CanRLock(m) == m.writer = ""

\* variant of Lock that does not wait for the readers
CanLockIgnoresReaders(m) == m.writer = ""

\* sync.RWMutex.Lock returns
CanLock(m) == m.writer = "" /\ m.readers = {}

\* variant of the send on done for a channel with a buffer: it completes
\* whatever the cleanup goroutine is doing
CanSendDoneBuffered(sweeper) == TRUE

\* The send on the unbuffered channel done completes when the cleanup
\* goroutine is in its select and receives.
CanSendDone(sweeper) == sweeper.pc = "select"

\* The goroutines that are in Get for sessionID, between RLock and RUnlock.
InGet(sessionID) ==
    {g \in Callers : threads[g].op = "Get" /\ threads[g].pc = "in"
                         /\ threads[g].id = sessionID}

\* A goroutine calls Get, Size, Set or Delete and has the lock.
CallLock(g) ==
    /\ threads[g] = IdleThread
    /\ \E op \in ReadOps \cup WriteOps, id \in SessionIDs, data \in LockData :
         /\ op = "Size" => id = CHOOSE i \in SessionIDs : TRUE
         /\ op # "Set" => data = CHOOSE d \in LockData : TRUE
         /\ (op = "Get" /\ Get(sessions, id, now).spawn)
                => pending[id] + Cardinality(InGet(id)) < MaxPending
         /\ IF op \in ReadOps
            THEN /\ CanRLock(mu)
                 /\ mu' = [mu EXCEPT !.readers = @ \cup {g}]
            ELSE /\ CanLock(mu)
                 /\ mu' = [mu EXCEPT !.writer = g]
         /\ threads' = [threads EXCEPT ![g] =
                            [op |-> op, pc |-> "in", id |-> id,
                             data |-> IF op = "Set" THEN data ELSE Nil]]
    /\ UNCHANGED <<ticker, config, loopVarShared, routes, sessions, pending, now,
                   lastPut, out>>

\* The method reads or writes the map and returns, releasing the lock.
CallUnlock(g) ==
    /\ threads[g].pc = "in"
    /\ threads[g].op \in ReadOps \cup WriteOps
    /\ sessions' = IF threads[g].op = "Set"
                   THEN Set(sessions, threads[g].id, threads[g].data)
                   ELSE IF threads[g].op = "Delete"
                   THEN Delete(sessions, threads[g].id)
                   ELSE sessions
    /\ pending' = IF threads[g].op = "Get"
                  THEN Spawned(pending, threads[g].id,
                               Get(sessions, threads[g].id, now).spawn)
                  ELSE pending
    /\ mu' = IF threads[g].op \in ReadOps
             THEN [mu EXCEPT !.readers = @ \ {g}]
             ELSE [mu EXCEPT !.writer = ""]
    /\ threads' = [threads EXCEPT ![g] = IdleThread]
    /\ UNCHANGED <<ticker, config, loopVarShared, routes, now, lastPut, out>>

\* The goroutine Get started takes the lock.
RemovalLock ==
    \E id \in SessionIDs :
        /\ pending[id] > 0
        /\ threads[Remover] = IdleThread
        /\ CanLock(mu)
        /\ pending' = [pending EXCEPT ![id] = @ - 1]
        /\ mu' = [mu EXCEPT !.writer = Remover]
        /\ threads' = [threads EXCEPT ![Remover] =
                           [op |-> "removal", pc |-> "in", id |-> id, data |-> Nil]]
        /\ UNCHANGED <<ticker, config, loopVarShared, routes, sessions, now, lastPut, out>>

\* It deletes the entry and ends.
RemovalUnlock ==
    /\ threads[Remover].pc = "in"
    /\ sessions' = Delete(sessions, threads[Remover].id)
    /\ mu' = [mu EXCEPT !.writer = ""]
    /\ threads' = [threads EXCEPT ![Remover] = IdleThread]
    /\ UNCHANGED <<ticker, config, loopVarShared, routes, pending, now, lastPut, out>>

\* The ticker puts a tick into its channel, which holds one.
TickerFire ==
    /\ ~ticker.stopped
    /\ ~ticker.tick
    /\ ticker' = [ticker EXCEPT !.tick = TRUE]
    /\ UNCHANGED <<mu, threads, config, loopVarShared, routes, sessions, pending, now,
                   lastPut, out>>

\* The cleanup goroutine's select takes the tick.
SweepReceive ==
    /\ threads[Sweeper].pc = "select"
    /\ ticker.tick
    /\ ticker' = [ticker EXCEPT !.tick = FALSE]
    /\ threads' = [threads EXCEPT ![Sweeper].pc = "lock"]
    /\ UNCHANGED <<mu, config, loopVarShared, routes, sessions, pending, now, lastPut, out>>

SweepLock ==
    /\ threads[Sweeper].pc = "lock"
    /\ CanLock(mu)
    /\ mu' = [mu EXCEPT !.writer = Sweeper]
    /\ threads' = [threads EXCEPT ![Sweeper].pc = "in"]
    /\ UNCHANGED <<ticker, config, loopVarShared, routes, sessions, pending, now,
                   lastPut, out>>

\* The pass deletes one expired entry.
SweepDelete ==
    /\ threads[Sweeper].pc = "in"
    /\ \E id \in SessionIDs :
         /\ sessions[id] # Nil
         /\ Before(sessions[id].ExpiresAt, now)
         /\ sessions' = Delete(sessions, id)
    /\ UNCHANGED <<mu, threads, ticker, config, loopVarShared, routes, pending, now,
                   lastPut, out>>

\* The pass has gone through the map: the goroutine unlocks and selects again.
SweepUnlock ==
    /\ threads[Sweeper].pc = "in"
    /\ sessions = Sweep(sessions, now)
    /\ mu' = [mu EXCEPT !.writer = ""]
    /\ threads' = [threads EXCEPT ![Sweeper].pc = "select"]
    /\ UNCHANGED <<ticker, config, loopVarShared, routes, sessions, pending, now,
                   lastPut, out>>

\* Close stops the ticker and comes to its send on done.
CloseStop(g) ==
    /\ threads[g] = IdleThread
    /\ ticker' = [ticker EXCEPT !.stopped = TRUE]
    /\ threads' = [threads EXCEPT ![g] =
                       [op |-> "Close", pc |-> "send", id |-> "", data |-> Nil]]
    /\ UNCHANGED <<mu, config, loopVarShared, routes, sessions, pending, now, lastPut, out>>

\* The send completes and Close returns; the cleanup goroutine, having
\* received, returns.
CloseSend(g) ==
    /\ threads[g].op = "Close"
    /\ threads[g].pc = "send"
    /\ CanSendDone(threads[Sweeper])
    /\ threads' = [threads EXCEPT
                       ![g].pc = "returned",
                       ![Sweeper].pc = IF @ = "select" THEN "returned" ELSE @]
    /\ UNCHANGED <<mu, ticker, config, loopVarShared, routes, sessions, pending, now,
                   lastPut, out>>

LockNext ==
    \/ \E g \in Callers : CallLock(g)
    \/ \E g \in Callers : CallUnlock(g)
    \/ RemovalLock
    \/ RemovalUnlock
    \/ TickerFire
    \/ SweepReceive
    \/ SweepLock
    \/ SweepDelete
    \/ SweepUnlock
    \/ \E g \in Callers : CloseStop(g)
    \/ \E g \in Callers : CloseSend(g)

LockSpec == StoreInit /\ [][LockNext]_vars

(***************************************************************************)
(* Claims about the session store                                          *)
(***************************************************************************)

\* C3: Get never returns a record whose ExpiresAt is earlier than the time
\* at which Get reads the clock, whatever was put, deleted or swept before.
C3_NoExpiredReturned ==
    (out.op = "Get" /\ out.data # Nil) => ~(out.data.ExpiresAt < out.time)

\* Get on an id whose stored record has already expired.
C3_Witness ==
    /\ out.op = "Get"
    /\ out.stored # Nil
    /\ out.stored.ExpiresAt < out.time
    /\ out.data = Nil

C5_GetReturnsLastPut ==
    (/\ out.op = "Get"
     /\ lastPut[out.id] # Nil
     /\ lastPut[out.id] # Deleted
     /\ out.time < lastPut[out.id].ExpiresAt) =>
        out.data = lastPut[out.id]

\* C6: a Get of an id whose last interface operation was Delete returns
\* not-found; a Delete of an absent id reports no error and leaves the store
\* as it was.
C6_DeleteThenGet ==
    /\ (out.op = "Get" /\ lastPut[out.id] = Deleted) =>
           (out.data = Nil /\ out.err = "session not found")
    /\ out.op = "Delete" => (out.err = "" /\ sessions[out.id] = Nil)
    /\ (out.op = "Delete" /\ out.stored = Nil) => out.unchanged

\* Get after the Delete of an id that had been Set.
C6_Witness ==
    /\ out.op = "Get"
    /\ lastPut[out.id] = Deleted
    /\ out.data = Nil
    /\ \E other \in SessionIDs : sessions[other] # Nil

(***************************************************************************)
(* Specification of the composed server                                    *)
(***************************************************************************)
Methods == {"GET", "OPTIONS"}

ServerPaths ==
    { HealthPath, OIDCCallbackPath, LogoutPath, AuthCallbackPath, UserinfoPath,
      <<"/">>, <<"/", "a", "/", "b">> }

Cookies == SessionIDs \cup {""}

States == {"st1", "st2"}

\* Access tokens the provider answers with; "" is a token response whose
\* body carries no access_token.
Tokens == {"t1", ""}

TokenResponses == {[AccessToken |-> t] : t \in Tokens}

\* The token endpoint's answers: no connection, an error status, a body
\* that is not JSON, or a token response.
TokenAnswers ==
    {TransportError, Response(500, Undecodable), Response(200, Undecodable)}
        \cup {Response(200, tr) : tr \in TokenResponses}

\* The provider's user-info answer for an access token: a failure, or the
\* user the provider issued the token to.
ProviderUser(token) == IF token = "t1" THEN UserOf("alice") ELSE UserOf("bob")

\* The user-info endpoint's answers to a request bearing the access token
\* of tokenResp.  After a failed token exchange the endpoint is not asked
\* and its answer is immaterial.
UserInfoAnswers(tokenResp) ==
    IF tokenResp = Nil THEN {TransportError}
    ELSE {TransportError, Response(401, Undecodable), Response(200, Undecodable),
          Response(200, ProviderUser(tokenResp.AccessToken))}

Queries ==
    {q \in [state : {"", "st1"}, code : {"", "c1"}, redirect_uri : {"", "/a"}] :
        q.redirect_uri # "" => (q.state # "" /\ q.code # "")}

\* The state parameter of a callback: none, one a login redirect can have
\* issued (States), or one the client made up.
CallbackStates == {"", "st1", "forged"}

CallbackQueries ==
    {q \in [state : CallbackStates, code : {"", "c1"}, redirect_uri : {""}] : TRUE}

\* What a client sends besides method, path and cookie: an Origin header
\* or none, and headers of its own choosing under the names the gateway
\* injects.
SentHeaders ==
    [h \in HeaderNames |->
        IF h = "X-Auth-User" THEN Plain("mallory")
        ELSE IF h = "Authorization" THEN Bearer("forged")
        ELSE Absent]

\* A preflight is what a browser sends, with its Origin; other requests come
\* with or without an Origin, or from a client that sets the headers above.
Clients(method) ==
    IF method = "OPTIONS"
    THEN { [Origin |-> <<"d">>, Header |-> NoHeaders] }
    ELSE { [Origin |-> <<>>, Header |-> NoHeaders],
           [Origin |-> <<"d">>, Header |-> NoHeaders],
           [Origin |-> <<>>, Header |-> SentHeaders] }

ValidSession(ss, cookie, t) ==
    cookie # "" /\ ss[cookie] # Nil /\ ~Before(ss[cookie].ExpiresAt, t)

\* The server as the Dockerfile builds it (golang:1.21: one routeConfig
\* variable for the whole loop), with each configured session max-age.
Init ==
    /\ config \in {Config(DemoRoutes, a) : a \in MaxAgeChoices}
    /\ loopVarShared = TRUE
    /\ routes = NewMultiProxyMiddleware(config, loopVarShared).routes
    /\ NewStore
    /\ out = NoOp

ServeHealth ==
    \E cookie \in {""} :
        /\ Idle
        /\ Mux(HealthPath) = "health"
        /\ out' = [op |-> "http", handler |-> "health",
                   req |-> [Method |-> "GET", Path |-> HealthPath, Cookie |-> cookie],
                   resp |-> HttpError(200, "health")]
        /\ UNCHANGED <<mu, threads, ticker, config, loopVarShared, routes, sessions, pending, now, lastPut>>

\* The handler reads the context key "user" as a plain string, a key no
\* middleware sets, and no gate wraps this pattern: it always answers 401.
ServeUserinfo ==
    \E cookie \in Cookies :
        /\ Idle
        /\ Mux(UserinfoPath) = "userinfo"
        /\ out' = [op |-> "http", handler |-> "userinfo",
                   req |-> [Method |-> "GET", Path |-> UserinfoPath, Cookie |-> cookie],
                   resp |-> HttpError(401, "userinfo")]
        /\ UNCHANGED <<mu, threads, ticker, config, loopVarShared, routes, sessions, pending, now, lastPut>>

ServeCallbackOf(queries) ==
    \E q \in queries, tokenAnswer \in TokenAnswers, sessionID \in SessionIDs :
      \E userAnswer \in UserInfoAnswers(exchangeCodeForToken(tokenAnswer)) :
        LET tokenResp == exchangeCodeForToken(tokenAnswer)
            userInfo == getUserInfo(userAnswer)
            r == HandleCallback(config, sessions, q, tokenResp, userInfo, sessionID, now)
            created == r.resp.setCookie # Nil
        IN  /\ Idle
            /\ Mux(AuthCallbackPath) = "callback"
            /\ IF created THEN lastPut[sessionID] = Nil
                          ELSE sessionID = CHOOSE id \in SessionIDs : TRUE
            /\ sessions' = r.sessions
            /\ lastPut' = IF created
                          THEN [lastPut EXCEPT ![sessionID] = r.sessions[sessionID]]
                          ELSE lastPut
            /\ out' = [op |-> "http", handler |-> "callback",
                       req |-> [Method |-> "GET", Path |-> AuthCallbackPath, Cookie |-> ""],
                       query |-> q, tokenAnswer |-> tokenAnswer,
                       userAnswer |-> userAnswer,
                       tokenResp |-> tokenResp, userInfo |-> userInfo,
                       sessionID |-> sessionID, calls |-> r.calls,
                       time |-> now, before |-> sessions, resp |-> r.resp]
            /\ UNCHANGED <<mu, threads, ticker, config, loopVarShared, routes, pending, now>>

ServeCallback == ServeCallbackOf(Queries)

ServeRoot ==
    \E method \in Methods, path \in ServerPaths, cookie \in Cookies,
       d \in 0..1, state \in States :
      \E client \in Clients(method) :
        LET req == [Method |-> method, Path |-> path, Cookie |-> cookie,
                    Origin |-> client.Origin, Header |-> client.Header,
                    ctx |-> EmptyCtx]
            gated == path # HealthPath /\ path # OIDCCallbackPath /\ path # LogoutPath
            r == Handler(config, routes, sessions, req, now, now + d, state)
        IN  /\ Idle
            /\ Mux(path) = "root"
            /\ now + d <= MaxTime
            /\ ~(gated /\ cookie # "") => d = 0
            /\ (r.resp.kind # "login") => state = CHOOSE st \in States : TRUE
            /\ r.spawn => pending[cookie] < MaxPending
            /\ sessions' = r.sessions
            /\ pending' = IF r.spawn THEN Spawned(pending, cookie, TRUE) ELSE pending
            /\ now' = now + d
            /\ lastPut' = IF path = LogoutPath /\ cookie # ""
                          THEN [lastPut EXCEPT ![cookie] = Deleted] ELSE lastPut
            /\ out' = [op |-> "http", handler |-> "root",
                       req |-> [Method |-> method, Path |-> path, Cookie |-> cookie,
                                Origin |-> client.Origin, Header |-> client.Header],
                       gated |-> gated,
                       stored |-> IF cookie # "" THEN sessions[cookie] ELSE Nil,
                       valid |-> ValidSession(sessions, cookie, now),
                       time |-> now, resp |-> r.resp]
            /\ UNCHANGED <<mu, threads, ticker, config, loopVarShared, routes>>

Next ==
    \/ Tick
    \/ ServeHealth
    \/ ServeUserinfo
    \/ ServeCallback
    \/ ServeRoot
    \/ RunRemoval
    \/ RunSweep
    \/ Completed

Spec == Init /\ [][Next]_vars

(***************************************************************************)
(* Specification of the login: gate and callback, with every state value   *)
(* a client can send to the callback                                       *)
(***************************************************************************)
\* The server with the shorter of the configured session lifetimes.
LoginInit == Init /\ config.SessionMaxAge = 1

ServeAnyCallback == ServeCallbackOf(CallbackQueries)

LoginNext ==
    \/ ServeRoot
    \/ ServeAnyCallback
    \/ Completed

LoginSpec == LoginInit /\ [][LoginNext]_vars

(***************************************************************************)
(* Specification of the sessions of a loaded configuration: the server     *)
(* with every session lifetime a configuration file can give               *)
(***************************************************************************)

\* The session lifetime setDefaults puts in place of 0.
DefaultSessionMaxAge == 3600

\* Config.setDefaults, for the fields the model has.
setDefaults(c) ==
    [c EXCEPT !.SessionMaxAge = IF @ = 0 THEN DefaultSessionMaxAge ELSE @,
              !.AllowedOrigins = IF @ = <<>> THEN <<Star>> ELSE @]

\* session.max_age of the configuration file: negative, absent (0), positive.
YamlMaxAges == {-1, 0, 1}

\* What LoadConfig returns without error: defaults applied, validate passed.
LoadedConfigs ==
    {c \in {setDefaults(Config(DemoRoutes, a)) : a \in YamlMaxAges} : validate(c) = ""}

SessionInit ==
    /\ config \in LoadedConfigs
    /\ loopVarShared = TRUE
    /\ routes = NewMultiProxyMiddleware(config, loopVarShared).routes
    /\ NewStore
    /\ out = NoOp

SessionSpec == SessionInit /\ [][ServeRoot \/ ServeCallback \/ Completed]_vars

(***************************************************************************)
(* Specification of concurrent callbacks: HandleCallback in two request    *)
(* goroutines, one step per provider call and one for the session write    *)
(***************************************************************************)

\* variant in which the token response is kept in one place for all
\* requests: a callback sees the one another callback in flight has received
TokenSeenByShared(ths, g) ==
    IF \E h \in Callers \ {g} : ths[h].op = "HandleCallback"
    THEN ths[CHOOSE h \in Callers \ {g} : ths[h].op = "HandleCallback"].data.tokenResp
    ELSE ths[g].data.tokenResp

\* tokenResp is a local variable of HandleCallback: what the callback of
\* goroutine g passes to getUserInfo is what its own exchange returned.
TokenSeenBy(ths, g) == ths[g].data.tokenResp

\* A callback with state and code arrives and its token exchange succeeds
\* with one of the provider's tokens.  (A callback that fails here ends
\* without any effect.)
ExchangeToken(g) ==
    /\ threads[g] = IdleThread
    /\ \E token \in {"t1", "t2"} :
         LET tokenResp == exchangeCodeForToken(Response(200, [AccessToken |-> token]))
         IN  threads' = [threads EXCEPT ![g] =
                            [op |-> "HandleCallback", pc |-> "getUserInfo", id |-> "",
                             data |-> [tokenResp |-> tokenResp, userInfo |-> Nil]]]
    /\ UNCHANGED <<mu, ticker, config, loopVarShared, routes, sessions, pending, now,
                   lastPut, out>>

\* The callback asks for the user info with its access token: the provider
\* answers with the user it issued the token to, or the call fails and the
\* callback ends.
FetchUserInfo(g) ==
    /\ threads[g].op = "HandleCallback"
    /\ threads[g].pc = "getUserInfo"
    /\ \E answer \in {TransportError,
                      Response(200, ProviderUser(TokenSeenBy(threads, g).AccessToken))} :
         LET userInfo == getUserInfo(answer)
         IN  threads' = [threads EXCEPT ![g] =
                            IF userInfo = Nil THEN IdleThread
                            ELSE [@ EXCEPT !.pc = "Set", !.data.userInfo = userInfo]]
    /\ UNCHANGED <<mu, ticker, config, loopVarShared, routes, sessions, pending, now,
                   lastPut, out>>

\* The callback generates its session id and writes the record.
StoreSession(g) ==
    /\ threads[g].op = "HandleCallback"
    /\ threads[g].pc = "Set"
    /\ \E sessionID \in SessionIDs :
         /\ lastPut[sessionID] = Nil
         /\ sessions' = Set(sessions, sessionID,
                            SessionData(threads[g].data.userInfo,
                                        threads[g].data.tokenResp.AccessToken,
                                        now + config.SessionMaxAge, "st1"))
         /\ lastPut' = [lastPut EXCEPT ![sessionID] = sessions'[sessionID]]
    /\ threads' = [threads EXCEPT ![g] = IdleThread]
    /\ UNCHANGED <<mu, ticker, config, loopVarShared, routes, pending, now, out>>

\* A request with a session cookie passes the gate and the router.
ServeWithCookie ==
    \E cookie \in SessionIDs, path \in {<<"/">>, <<"/", "a", "/", "b">>} :
        LET req == [ClientRequest("GET", path) EXCEPT !.Cookie = cookie]
            r == Handler(config, routes, sessions, req, now, now, "st1")
        IN  /\ Idle
            /\ ~r.spawn
            /\ sessions' = r.sessions
            /\ out' = [op |-> "http", handler |-> "root",
                       req |-> [Method |-> "GET", Path |-> path, Cookie |-> cookie,
                                Origin |-> req.Origin, Header |-> req.Header],
                       gated |-> TRUE, stored |-> sessions[cookie],
                       valid |-> ValidSession(sessions, cookie, now),
                       time |-> now, resp |-> r.resp]
            /\ UNCHANGED <<mu, threads, ticker, config, loopVarShared, routes, pending,
                           now, lastPut>>

ConcurrentSpec ==
    LoginInit /\ [][\/ \E g \in Callers : ExchangeToken(g)
                    \/ \E g \in Callers : FetchUserInfo(g)
                    \/ \E g \in Callers : StoreSession(g)
                    \/ ServeWithCookie
                    \/ Completed]_vars

(***************************************************************************)
(* Claims about the gate                                                   *)
(***************************************************************************)

\* C1 as stated: no request is forwarded to an upstream unless, at its gate
\* check, it carried a session cookie whose id maps to a stored record that
\* is not expired.
C1_NoForwardWithoutSession ==
    (out.op = "http" /\ out.resp.kind = "forwarded") => out.valid

\* C2: a gated request without a cookie, with an id the store does not know,
\* or with an expired record gets the same answer: a 302 to the provider's
\* authorization endpoint with client_id, response_type=code, scope,
\* redirect_uri and a generated state; the next handler is not invoked.
C2_InvalidSessionRedirects ==
    (/\ out.op = "http"
     /\ out.handler = "root"
     /\ out.gated
     /\ \/ out.req.Cookie = ""
        \/ out.stored = Nil
        \/ out.stored.ExpiresAt < out.time) =>
        /\ out.resp.kind = "login"
        /\ out.resp.status = 302
        /\ out.resp.location.url = ProviderConfig.AuthorizationEndpoint
        /\ out.resp.location.query.client_id = config.OIDCClientID
        /\ out.resp.location.query.response_type = "code"
        /\ out.resp.location.query.scope = config.OIDCScopes
        /\ out.resp.location.query.redirect_uri = config.OIDCRedirectURL
        /\ out.resp.location.query.state \in States
        /\ out.resp.outReq = Nil
        /\ out.resp.setCookie = Nil

\* A gated request presenting the id of a record that has expired.
C2_Witness ==
    /\ out.op = "http"
    /\ out.handler = "root"
    /\ out.gated
    /\ out.req.Cookie # ""
    /\ out.stored # Nil
    /\ out.stored.ExpiresAt < out.time
    /\ out.resp.kind = "login"

(***************************************************************************)
(* Claims about the identity headers                                       *)
(***************************************************************************)

\* A request the session check let through and the router forwarded.
AuthenticatedForward ==
    /\ out.op = "http"
    /\ out.handler = "root"
    /\ out.gated
    /\ out.resp.kind = "forwarded"

\* The four X-Auth headers of the forwarded request are those of the record.
IdentityOf(hdr, rec) ==
    /\ hdr["X-Auth-User"] = Plain(rec.UserInfo.Sub)
    /\ hdr["X-Auth-Email"] = Plain(rec.UserInfo.Email)
    /\ hdr["X-Auth-Name"] = Plain(rec.UserInfo.Name)
    /\ hdr["X-Auth-Username"] = Plain(rec.UserInfo.PreferredUsername)

\* C11 as stated: a request forwarded after the session check carries the
\* X-Auth headers of the record under its own cookie and Authorization equal
\* to "Bearer " followed by that record's access token.
C11_HeadersOfOwnRecord ==
    AuthenticatedForward =>
        /\ IdentityOf(out.resp.outReq.Header, out.stored)
        /\ out.resp.outReq.Header["Authorization"] = Bearer(out.stored.AccessToken)

\* C11 amended: the X-Auth headers are those of the record under the
\* request's own cookie; Authorization is "Bearer " followed by the record's
\* access token when that token is non-empty, and is not written by the
\* gateway (the request's own Authorization header, if any, stays) when the
\* token is empty.
C11_HeadersOfOwnRecordAmended ==
    AuthenticatedForward =>
        /\ IdentityOf(out.resp.outReq.Header, out.stored)
        /\ out.resp.outReq.Header["Authorization"] =
               IF out.stored.AccessToken # ""
               THEN Bearer(out.stored.AccessToken)
               ELSE out.req.Header["Authorization"]

\* A forwarded request of one of two stored users, sent with X-Auth-User and
\* Authorization headers of the client's own, the record's token non-empty.
C11_Witness ==
    /\ AuthenticatedForward
    /\ out.stored.AccessToken # ""
    /\ out.req.Header = SentHeaders
    /\ \E other \in SessionIDs :
           /\ other # out.req.Cookie
           /\ sessions[other] # Nil
           /\ sessions[other].UserInfo # out.stored.UserInfo

(***************************************************************************)
(* Claims about the callback                                               *)
(***************************************************************************)

\* A callback request that has been answered.
CallbackDone == out.op = "http" /\ out.handler = "callback"

\* Both query parameters are there and both provider calls succeed.
CallbackSucceeds ==
    /\ CallbackDone
    /\ out.query.state # "" /\ out.query.code # ""
    /\ out.tokenAnswer.err = FALSE /\ out.tokenAnswer.StatusCode = 200
    /\ out.tokenAnswer.Body # Undecodable
    /\ out.userAnswer.err = FALSE /\ out.userAnswer.StatusCode = 200
    /\ out.userAnswer.Body # Undecodable

\* C12: after a callback with state and code whose token exchange and
\* user-info fetch succeed, the store holds a record under an id it did not
\* hold before, expiring at the current time plus the configured max-age;
\* the response sets the session cookie (http-only, same-site lax, path "/",
\* max-age the configured seconds) to that id and is a 302 to the
\* redirect_uri parameter, or to "/" when that is empty.
C12_CallbackEstablishesSession ==
    CallbackSucceeds =>
        /\ out.before[out.sessionID] = Nil
        /\ sessions[out.sessionID] # Nil
        /\ sessions[out.sessionID].ExpiresAt = out.time + config.SessionMaxAge
        /\ \A id \in SessionIDs \ {out.sessionID} : sessions[id] = out.before[id]
        /\ out.resp.setCookie # Nil
        /\ out.resp.setCookie.Name = config.SessionCookieName
        /\ out.resp.setCookie.Value = out.sessionID
        /\ out.resp.setCookie.HttpOnly
        /\ out.resp.setCookie.SameSite = "Lax"
        /\ out.resp.setCookie.Path = "/"
        /\ out.resp.setCookie.MaxAge = config.SessionMaxAge
        /\ out.resp.status = 302
        /\ out.resp.location.url =
               IF out.query.redirect_uri # "" THEN out.query.redirect_uri ELSE "/"

\* A successful callback with a redirect_uri, at a time after start, while
\* another session is stored.
C12_Witness ==
    /\ CallbackSucceeds
    /\ out.query.redirect_uri # ""
    /\ out.time > 0
    /\ \E id \in SessionIDs \ {out.sessionID} : sessions[id] # Nil
    /\ sessions[out.sessionID] # Nil

\* C13: a callback whose state or code parameter is missing or empty gets a
\* 400, makes no request to the provider, writes nothing to the store and
\* sets no cookie.
C13_MissingParameterRejected ==
    (CallbackDone /\ (out.query.state = "" \/ out.query.code = "")) =>
        /\ out.resp.status = 400
        /\ out.calls = <<>>
        /\ sessions = out.before
        /\ out.resp.setCookie = Nil

\* A callback with a state but no code, which the provider would have
\* accepted, arriving while a session is stored.
C13_Witness ==
    /\ CallbackDone
    /\ out.query.state # "" /\ out.query.code = ""
    /\ out.tokenAnswer.err = FALSE /\ out.tokenAnswer.StatusCode = 200
    /\ out.tokenAnswer.Body # Undecodable
    /\ out.resp.status = 400
    /\ \E id \in SessionIDs : sessions[id] # Nil

\* The token exchange failed, or it succeeded and the user-info fetch failed.
ProviderCallFails ==
    /\ CallbackDone
    /\ out.query.state # "" /\ out.query.code # ""
    /\ \/ out.tokenAnswer.err
       \/ out.tokenAnswer.StatusCode # 200
       \/ out.tokenAnswer.Body = Undecodable
       \/ out.userAnswer.err
       \/ out.userAnswer.StatusCode # 200
       \/ out.userAnswer.Body = Undecodable

\* C14: when the token exchange or the user-info fetch fails (transport
\* error, non-200 status, undecodable body) the response is a 5xx, the store
\* is unchanged and no cookie is set.
C14_ProviderFailureIs5xx ==
    ProviderCallFails =>
        /\ out.resp.status \in 500..599
        /\ sessions = out.before
        /\ out.resp.setCookie = Nil

\* The token exchange succeeded and the user-info body could not be decoded,
\* while a session is stored.
C14_Witness ==
    /\ ProviderCallFails
    /\ out.tokenResp # Nil
    /\ out.userAnswer = Response(200, Undecodable)
    /\ out.resp.status = 500
    /\ \E id \in SessionIDs : sessions[id] # Nil

(***************************************************************************)
(* Claims about logout                                                     *)
(***************************************************************************)

\* A request served by the gate and whatever it wraps.
RootDone == out.op = "http" /\ out.handler = "root"

\* C15: once a logout request with session cookie S is answered, the store
\* has no record for S and the response clears the cookie and redirects to
\* "/"; every later request with cookie S that reaches the session check is
\* redirected to login and not forwarded.
C15_LogoutEndsSession ==
    /\ (RootDone /\ out.req.Path = LogoutPath /\ out.req.Cookie # "") =>
           /\ sessions[out.req.Cookie] = Nil
           /\ out.resp.setCookie # Nil
           /\ out.resp.setCookie.Name = config.SessionCookieName
           /\ out.resp.setCookie.Value = ""
           /\ out.resp.setCookie.MaxAge < 0
           /\ out.resp.status = 302
           /\ out.resp.location.url = "/"
    /\ (RootDone /\ out.gated /\ out.req.Cookie # ""
            /\ lastPut[out.req.Cookie] = Deleted) =>
           /\ out.resp.kind = "login"
           /\ out.resp.outReq = Nil

\* A request with the cookie of a logged-out session, made while the other
\* session is still accepted.
C15_Witness ==
    /\ RootDone
    /\ out.gated
    /\ out.req.Cookie # ""
    /\ lastPut[out.req.Cookie] = Deleted
    /\ out.resp.kind = "login"
    /\ \E other \in SessionIDs : ValidSession(sessions, other, now)

(***************************************************************************)
(* Claims about CORS in the composed server                                *)
(***************************************************************************)

\* The response carries the allow-methods, allow-headers and
\* allow-credentials headers.
HasCORSHeaders(resp) ==
    /\ resp.cors["Access-Control-Allow-Methods"] # Absent
    /\ resp.cors["Access-Control-Allow-Headers"] # Absent
    /\ resp.cors["Access-Control-Allow-Credentials"] # Absent

\* C16 as stated: an OPTIONS request is answered as a preflight, with the
\* CORS headers, before any authentication check: with or without a valid
\* session, and never with a redirect to login.
C16_PreflightBeforeAuth ==
    (RootDone /\ out.gated /\ out.req.Method = "OPTIONS") =>
        /\ out.resp.kind = "preflight"
        /\ out.resp.status = 200
        /\ HasCORSHeaders(out.resp)

\* C17 as stated: the response to a request of any other method carries the
\* CORS headers whatever its outcome, a redirect to login included.
C17_CORSOnEveryResponse ==
    (RootDone /\ out.gated /\ out.req.Method # "OPTIONS") =>
        HasCORSHeaders(out.resp)

(***************************************************************************)
(* Claims about the CORS policy                                            *)
(***************************************************************************)

AllowOrigin(resp) == resp.cors["Access-Control-Allow-Origin"]

\* C18 as stated: with the allow-list exactly {"*"}, a request with any
\* Origin value gets Access-Control-Allow-Origin set to the literal "*".
C18_StarListAnswersStar ==
    (out.op = "cors" /\ config.AllowedOrigins = <<Star>>) =>
        AllowOrigin(out.resp) = Plain(Star)

\* The origin is an entry of the list as it stands.
ExactEntry(allowedOrigins, origin) ==
    \E i \in 1..Len(allowedOrigins) : allowedOrigins[i] = origin

\* The origin ends with what follows "*." in some entry of that form.
WildcardEntry(allowedOrigins, origin) ==
    \E i \in 1..Len(allowedOrigins) :
        /\ Len(allowedOrigins[i]) >= 2
        /\ SubSeq(allowedOrigins[i], 1, 2) = StarDot
        /\ \E k \in 0..Len(origin) :
               SubSeq(origin, k + 1, Len(origin)) =
                   SubSeq(allowedOrigins[i], 3, Len(allowedOrigins[i]))

C20_NoMatchIs404 ==
    out.op = "proxy" =>
        /\ Matching(routes, out.path) = {} =>
               /\ out.resp.kind = "notfound"
               /\ out.resp.status = 404
               /\ out.resp.outReq = Nil
        /\ (\E k \in 1..Len(routes) : routes[k].PathPrefix = Slash) =>
               /\ findRoute(routes, out.path) # Nil
               /\ out.resp.kind # "notfound"
               /\ out.resp.status # 404

\* A table of two routes, none with prefix "/", and a path under neither.
C20_Witness ==
    /\ out.op = "proxy"
    /\ Len(routes) >= 2
    /\ \A k \in 1..Len(routes) : routes[k].PathPrefix # Slash
    /\ Len(out.path) > 1
    /\ out.resp.kind = "notfound"
    /\ out.resp.status = 404

(***************************************************************************)
(* Specification of the start of the process: main up to serving           *)
(***************************************************************************)

\* A provider metadata document that is valid JSON and names no endpoint.
EmptyProviderConfig ==
    [AuthorizationEndpoint |-> "", TokenEndpoint |-> "", UserInfoEndpoint |-> ""]

\* The discovery endpoint's answers.
DiscoveryAnswers ==
    {TransportError, Response(500, Undecodable), Response(200, Undecodable),
     Response(200, ProviderConfig), Response(200, EmptyProviderConfig)}

\* discoverProvider: the provider configuration it stores, Nil when it
\* returns an error
discoverProvider(answer) ==
    IF answer.err THEN Nil
    ELSE IF answer.StatusCode # 200 THEN Nil
    ELSE IF answer.Body = Undecodable THEN Nil
    ELSE answer.Body

\* NewOIDCMiddleware: the provider configuration of the middleware it
\* returns, Nil when it returns an error
NewOIDCMiddleware(answer) == discoverProvider(answer)

\* main up to the point where the server listens: which step was fatal, if
\* any, and what was built.
main(cfg, answer, shared) ==
    LET err == validate(cfg)
        provider == NewOIDCMiddleware(answer)
        proxy == NewMultiProxyMiddleware(cfg, shared)
    IN  IF err # ""
        THEN [serving |-> FALSE, fatal |-> "LoadConfig", validateErr |-> err,
              provider |-> Nil, routes |-> <<>>]
        ELSE IF provider = Nil
        THEN [serving |-> FALSE, fatal |-> "NewOIDCMiddleware", validateErr |-> err,
              provider |-> Nil, routes |-> <<>>]
        ELSE IF proxy.err
        THEN [serving |-> FALSE, fatal |-> "NewProxyMiddleware", validateErr |-> err,
              provider |-> provider, routes |-> <<>>]
        ELSE [serving |-> TRUE, fatal |-> "", validateErr |-> err,
              provider |-> provider, routes |-> proxy.routes]

\* Route entries of a configuration file: a catch-all, a prefix route, and
\* an entry whose upstream URL does not parse.
StartRouteChoices ==
    { UpstreamRoute(<<"/">>, URL("frontend", <<>>), FALSE),
      UpstreamRoute(<<"/", "a">>, URL("api", <<>>), FALSE),
      UpstreamRoute(<<"/", "b">>, URL("a b", <<>>), FALSE) }

StartRouteLists == {<<>>} \cup UNION {[1..n -> StartRouteChoices] : n \in 1..MaxRoutes}

SecretLens == {0, 1, MinSecretLen - 1, MinSecretLen, MinSecretLen + 1}

\* The configurations LoadFromYAML can hand to validate.
StartConfigs ==
    {[Config(rs, 1) EXCEPT !.OIDCProviderURL = f[1], !.OIDCClientID = f[2],
                           !.OIDCClientSecret = f[3], !.OIDCRedirectURL = f[4],
                           !.SessionSecret = SecretOfLen(n)] :
        rs \in StartRouteLists, n \in SecretLens, f \in [1..4 -> {"", "v"}]}

StartInit ==
    /\ config \in StartConfigs
    /\ loopVarShared = TRUE
    /\ routes = <<>>
    /\ NewStore
    /\ out = NoOp

\* The process is started, for the first time or again after it ended: it
\* ends with log.Fatalf or begins to serve.
Start ==
    /\ Idle
    /\ \E answer \in DiscoveryAnswers :
         LET m == main(config, answer, loopVarShared)
         IN  /\ out' = [op |-> "start", answer |-> answer, serving |-> m.serving,
                        fatal |-> m.fatal, validateErr |-> m.validateErr,
                        provider |-> m.provider]
             /\ routes' = m.routes
    /\ UNCHANGED <<mu, threads, ticker, config, loopVarShared, sessions, pending, now,
                   lastPut>>

\* The router is constructed from the route list of the configuration, as
\* main does after validation and as the router's tests do directly.
BuildRouter ==
    /\ Idle
    /\ LET p == NewMultiProxyMiddleware(config, loopVarShared)
       IN  out' = [op |-> "NewMultiProxyMiddleware", err |-> p.err, routes |-> p.routes]
    /\ UNCHANGED <<mu, threads, ticker, config, loopVarShared, routes, sessions, pending,
                   now, lastPut>>

\* The started process serves a request.
ServeStarted == routes # <<>> /\ ServeProxy

StartNext ==
    \/ Start
    \/ BuildRouter
    \/ ServeStarted
    \/ Completed

StartSpec == StartInit /\ [][StartNext]_vars

(***************************************************************************)
(* Claims about the start of the process                                   *)
(***************************************************************************)

\* C21 as stated: every route table the router is built from has a route
\* with prefix "/", because validation rejects a list without one.
C21_TableHasCatchAll ==
    (out.op = "start" /\ out.serving) =>
        \E k \in 1..Len(routes) : routes[k].PathPrefix = Slash

\* The validation conditions as the documentation lists them.
RequiredEmpty ==
    \/ config.OIDCProviderURL = ""
    \/ config.OIDCClientID = ""
    \/ config.OIDCClientSecret = ""
    \/ config.OIDCRedirectURL = ""
    \/ config.SessionSecret = <<>>

\* C27: validation returns an error exactly when a required value is empty,
\* the route list is empty, or the session secret has fewer than 32
\* characters; a configuration with all of them set, a secret of 32 or more
\* characters and at least one route passes.
C27_ValidateRejectsExactly ==
    out.op = "start" =>
        /\ (RequiredEmpty \/ config.UpstreamRoutes = <<>> \/ Len(config.SessionSecret) < 32)
               => (out.validateErr # "" /\ out.fatal = "LoadConfig" /\ ~out.serving)
        /\ (~RequiredEmpty /\ Len(config.UpstreamRoutes) >= 1 /\ Len(config.SessionSecret) >= 32)
               => out.validateErr = ""

\* A configuration complete but for a secret of 31 characters is rejected.
C27_Witness ==
    /\ out.op = "start"
    /\ ~RequiredEmpty
    /\ Len(config.UpstreamRoutes) >= 1
    /\ Len(config.SessionSecret) = 31
    /\ out.validateErr # ""

\* Some entry of the configured route list has an upstream URL that does not
\* parse.
SomeURLMalformed ==
    \E k \in 1..Len(config.UpstreamRoutes) :
        config.UpstreamRoutes[k].UpstreamURL.Host \in InvalidHosts

DiscoveryFailed(answer) ==
    answer.err \/ answer.StatusCode # 200 \/ answer.Body = Undecodable

\* The endpoints the middleware uses are known.
EndpointsKnown(p) ==
    /\ p # Nil
    /\ p.AuthorizationEndpoint # ""
    /\ p.TokenEndpoint # ""
    /\ p.UserInfoEndpoint # ""

\* C26 as stated: a failed discovery gives no middleware and a process that
\* does not serve, and a process that serves knows the provider's endpoints.
C26_NoServingWithoutEndpoints ==
    out.op = "start" =>
        /\ (out.validateErr = "" /\ DiscoveryFailed(out.answer))
               => (out.provider = Nil /\ ~out.serving /\ out.fatal = "NewOIDCMiddleware")
        /\ out.serving => EndpointsKnown(out.provider)

\* The part of C26 that the code keeps: the three failures are fatal.
C26_FailedDiscoveryIsFatal ==
    (out.op = "start" /\ out.validateErr = "" /\ DiscoveryFailed(out.answer))
        => (out.provider = Nil /\ ~out.serving /\ out.fatal = "NewOIDCMiddleware")

(***************************************************************************)
(* Claims about the order of the route table                               *)
(***************************************************************************)

\* The configuration entry a route of the table was built from.
EntryOf(r) == [Path |-> r.PathPrefix, UpstreamURL |-> r.UpstreamURL, StripPath |-> r.StripPath]

\* The entries of rcs whose path has n characters, in the order of rcs.
OfLength(rcs, n) == SelectSeq(rcs, LAMBDA e : Len(e.Path) = n)

\* The configured entries that match the path and are as long as any that does.
LongestMatching(path) ==
    {k \in 1..Len(config.UpstreamRoutes) :
        /\ pathMatches(path, config.UpstreamRoutes[k].Path)
        /\ \A m \in 1..Len(config.UpstreamRoutes) :
               pathMatches(path, config.UpstreamRoutes[m].Path)
                   => Len(config.UpstreamRoutes[m].Path) <= Len(config.UpstreamRoutes[k].Path)}

\* C28: the table is ordered by non-increasing prefix length, routes of equal
\* prefix length keep the order of the configuration, and among the longest
\* matching routes the one configured first is selected.
C28_StableDescendingOrder ==
    /\ \A i, j \in 1..Len(routes) :
           i < j => Len(routes[i].PathPrefix) >= Len(routes[j].PathPrefix)
    /\ \A k \in 1..Len(config.UpstreamRoutes) :
           LET n == Len(config.UpstreamRoutes[k].Path)
           IN  OfLength([m \in 1..Len(routes) |-> EntryOf(routes[m])], n)
                   = OfLength(config.UpstreamRoutes, n)
    /\ (out.op = "proxy" /\ out.resp.route # Nil) =>
           \E k \in LongestMatching(out.path) :
               /\ \A m \in LongestMatching(out.path) : k <= m
               /\ EntryOf(out.resp.route) = config.UpstreamRoutes[k]

\* Two entries with one prefix and different upstreams, then a longer entry:
\* the longer one heads the table, and a path only the two match goes to the
\* one configured first.
C28_Witness ==
    /\ out.op = "proxy"
    /\ Len(config.UpstreamRoutes) = 3
    /\ config.UpstreamRoutes[1].Path = config.UpstreamRoutes[2].Path
    /\ config.UpstreamRoutes[1].UpstreamURL # config.UpstreamRoutes[2].UpstreamURL
    /\ Len(config.UpstreamRoutes[3].Path) > Len(config.UpstreamRoutes[1].Path)
    /\ EntryOf(routes[1]) = config.UpstreamRoutes[3]
    /\ LongestMatching(out.path) = {1, 2}
    /\ out.resp.route # Nil
    /\ EntryOf(out.resp.route) = config.UpstreamRoutes[1]

(***************************************************************************)
(* Claims about where session records come from                            *)
(***************************************************************************)

\* C29: a record enters the store, or replaces another, only in a callback
\* whose token exchange and user-info fetch both succeeded, as the record
\* that callback built; the gate check, the login redirect and the logout
\* insert nothing.
C29_OnlyCallbackInserts ==
    [][\A id \in SessionIDs :
          (sessions'[id] # Nil /\ sessions'[id] # sessions[id]) =>
              /\ out'.op = "http"
              /\ out'.handler = "callback"
              /\ out'.sessionID = id
              /\ out'.tokenAnswer.err = FALSE /\ out'.tokenAnswer.StatusCode = 200
              /\ out'.tokenAnswer.Body # Undecodable
              /\ out'.userAnswer.err = FALSE /\ out'.userAnswer.StatusCode = 200
              /\ out'.userAnswer.Body # Undecodable
              /\ sessions'[id].UserInfo = out'.userAnswer.Body
              /\ sessions'[id].AccessToken = out'.tokenAnswer.Body.AccessToken]_vars

\* A login redirect is answered to a request whose cookie names no record,
\* while the store holds the record of a completed callback.
C29_Witness ==
    /\ RootDone
    /\ out.resp.kind = "login"
    /\ out.req.Cookie # ""
    /\ sessions[out.req.Cookie] = Nil
    /\ \E id \in SessionIDs : sessions[id] # Nil /\ sessions[id] = lastPut[id]

\* Two records that differ at most in the State field, which no code reads.
SameButState(a, b) ==
    IF a = Nil \/ b = Nil THEN a = b
    ELSE /\ a.UserInfo = b.UserInfo
         /\ a.AccessToken = b.AccessToken
         /\ a.ExpiresAt = b.ExpiresAt

\* C30: a callback with a non-empty state has, with any other non-empty
\* state in its place, the same response, the same requests to the provider
\* and the same session (the record keeps the state the callback carried,
\* which is compared with nothing); and a callback with a state no login
\* redirect issues establishes a session when the provider accepts its code.
C30_StateNotCompared ==
    (CallbackDone /\ out.query.state # "") =>
        /\ \A st \in CallbackStates \ {""} :
               LET alt == HandleCallback(config, out.before,
                                         [out.query EXCEPT !.state = st],
                                         out.tokenResp, out.userInfo, out.sessionID,
                                         out.time)
               IN  /\ alt.resp = out.resp
                   /\ alt.calls = out.calls
                   /\ \A id \in SessionIDs : SameButState(alt.sessions[id], sessions[id])
        /\ (out.query.state \notin States /\ out.query.code # ""
                /\ out.tokenResp # Nil /\ out.userInfo # Nil) =>
               /\ out.resp.status = 302
               /\ out.resp.setCookie # Nil
               /\ out.resp.setCookie.Value = out.sessionID
               /\ out.before[out.sessionID] = Nil
               /\ sessions[out.sessionID] # Nil

\* A callback carrying a made-up state has established a session.
C30_Witness ==
    /\ CallbackDone
    /\ out.query.state = "forged"
    /\ out.resp.setCookie # Nil
    /\ sessions[out.sessionID] # Nil
    /\ sessions[out.sessionID].State = "forged"

(***************************************************************************)
(* Claims about the background sweep                                       *)
(***************************************************************************)

\* The store holds, under id, a record whose ExpiresAt has passed.
HoldsExpired(id) == sessions[id] # Nil /\ Before(sessions[id].ExpiresAt, now)

\* C22: while the store is open and the ticker keeps firing, a record whose
\* ExpiresAt has passed does not stay: it is eventually gone from the store,
\* whether or not any Get is issued for its id.
C22_ExpiredEventuallyRemoved ==
    \A id \in SessionIDs : HoldsExpired(id) ~> ~HoldsExpired(id)

\* A sweep pass has removed an expired record for which no removal was
\* scheduled by a Get.
C22_Witness ==
    /\ out.op = "sweep"
    /\ \E id \in SessionIDs :
           /\ out.before[id] # Nil
           /\ Before(out.before[id].ExpiresAt, out.time)
           /\ pending[id] = 0
           /\ sessions[id] = Nil

(***************************************************************************)
(* Claims about the store's goroutines                                     *)
(***************************************************************************)

\* The goroutine is between taking and releasing the lock.
InSection(g) == threads[g].pc = "in"

\* What the goroutine does there only reads the map.
OnlyReads(g) == threads[g].op \in ReadOps

\* C24: two goroutines are between lock and unlock at once only when both
\* are in a read (Get, Size): Set, Delete, the removal Get starts and the
\* sweep pass exclude each other and every read, so no read sees the map
\* while a mutation is under way.
C24_MutationsExclusive ==
    \A g, h \in Goroutines :
        (g # h /\ InSection(g) /\ InSection(h)) => (OnlyReads(g) /\ OnlyReads(h))

\* Two reads overlap while the cleanup goroutine, holding a tick, and a
\* scheduled removal wait for the lock.
C24_Witness ==
    /\ \A g \in Callers : InSection(g) /\ OnlyReads(g)
    /\ threads[Sweeper].pc = "lock"
    /\ \E id \in SessionIDs : pending[id] > 0

\* Close has returned in some goroutine.
CloseReturned == \E g \in Callers : threads[g].op = "Close" /\ threads[g].pc = "returned"

\* The cleanup goroutine has returned.
SweeperReturned == threads[Sweeper].pc = "returned"

\* C23: once Close has returned the cleanup goroutine has returned; it holds
\* no lock, and from then on it takes no tick, runs no pass and deletes
\* nothing.
C23_CloseEndsSweep ==
    /\ [](CloseReturned => (SweeperReturned /\ mu.writer # Sweeper))
    /\ [][SweeperReturned => threads'[Sweeper] = threads[Sweeper]]_vars
    /\ [][CloseReturned =>
            (sessions' # sessions => \E g \in Goroutines \ {Sweeper} :
                                         InSection(g) /\ ~InSection(g)')]_vars

\* Close has returned while a tick was still in the ticker's channel and an
\* expired entry in the map, with a caller in the middle of a Set.
C23_Witness ==
    /\ CloseReturned
    /\ SweeperReturned
    /\ ticker.stopped
    /\ ticker.tick
    /\ \E g \in Callers : InSection(g) /\ threads[g].op = "Set"
    /\ \E id \in SessionIDs : sessions[id] # Nil /\ Before(sessions[id].ExpiresAt, now)

(***************************************************************************)
(* Claims about the provider calls of a callback                           *)
(***************************************************************************)

\* The answer of a provider endpoint is a success: 200 with a decodable body.
Succeeded(answer) == ~answer.err /\ answer.StatusCode = 200 /\ answer.Body # Undecodable

\* How often the callback asked the named endpoint.
TimesAsked(endpoint) == Cardinality({k \in 1..Len(out.calls) : out.calls[k] = endpoint})

\* C31: a callback asks the token endpoint at most once and the user-info
\* endpoint at most once; it asks for the user info only after a successful
\* token exchange and writes the session only after a successful user-info
\* fetch; after the first failure it makes no further provider call.
C31_SingleAttemptInOrder ==
    CallbackDone =>
        /\ TimesAsked("token") <= 1
        /\ TimesAsked("userinfo") <= 1
        /\ Len(out.calls) = TimesAsked("token") + TimesAsked("userinfo")
        /\ TimesAsked("userinfo") = 1 =>
               (out.calls = <<"token", "userinfo">> /\ Succeeded(out.tokenAnswer))
        /\ sessions # out.before =>
               (out.calls = <<"token", "userinfo">> /\ Succeeded(out.userAnswer))
        /\ (TimesAsked("token") = 1 /\ ~Succeeded(out.tokenAnswer)) =>
               (out.calls = <<"token">> /\ sessions = out.before)
        /\ (TimesAsked("userinfo") = 1 /\ ~Succeeded(out.userAnswer)) =>
               sessions = out.before

\* The token endpoint answered with an error status: it was asked once, the
\* user-info endpoint not at all.
C31_Witness ==
    /\ CallbackDone
    /\ out.tokenAnswer = Response(500, Undecodable)
    /\ out.calls = <<"token">>
    /\ out.resp.status = 500

(***************************************************************************)
(* Claims about the lifetime of a session                                  *)
(***************************************************************************)

\* C32 as stated: under every configuration that loading and validation
\* accept, the record a successful callback writes expires strictly later
\* than the time at which it is written.
C32_FreshSessionNotExpired ==
    (CallbackSucceeds /\ sessions[out.sessionID] # Nil) =>
        sessions[out.sessionID].ExpiresAt > out.time

\* C33: a stored record is never changed, only removed: gate checks, Get and
\* forwarding leave its ExpiresAt as the callback set it; a request is
\* forwarded under a session only while the clock has not passed that
\* ExpiresAt, and is sent to the login once it has, however often the
\* session was used before.
C33_NoRenewal ==
    /\ [][\A id \in SessionIDs :
             sessions[id] # Nil => (sessions'[id] = Nil \/ sessions'[id] = sessions[id])]_vars
    /\ [](AuthenticatedForward =>
             (out.stored = lastPut[out.req.Cookie] /\ now <= out.stored.ExpiresAt))
    /\ []((RootDone /\ out.gated /\ out.stored # Nil /\ out.stored.ExpiresAt < out.time) =>
             (out.resp.kind = "login" /\ out.resp.outReq = Nil))

\* A request under a session whose lifetime ended one second ago is sent to
\* the login while the other session is still accepted.
C33_Witness ==
    /\ RootDone
    /\ out.gated
    /\ out.stored # Nil
    /\ out.stored = lastPut[out.req.Cookie]
    /\ out.time = out.stored.ExpiresAt + 1
    /\ out.resp.kind = "login"
    /\ \E other \in SessionIDs : ValidSession(sessions, other, now)

(***************************************************************************)
(* Claims about the removal Get schedules                                  *)
(***************************************************************************)

\* C34: a Get that finds its entry expired returns no record, leaves the
\* table as it is, the entry still in it, and has started the removal; with
\* the removal scheduled fairly the expired entry is eventually gone, with
\* or without a sweep.
C34_LazyRemoval ==
    /\ []((out.op = "Get" /\ out.stored # Nil /\ Before(out.stored.ExpiresAt, out.time)) =>
             /\ out.data = Nil
             /\ out.err # ""
             /\ sessions[out.id] = out.stored
             /\ pending[out.id] > 0)
    /\ \A id \in SessionIDs : (HoldsExpired(id) /\ pending[id] > 0) ~> ~HoldsExpired(id)

\* Get has returned for an expired entry that is still in the table, its
\* removal started and not yet run, next to a record that has not expired.
C34_Witness ==
    /\ out.op = "Get"
    /\ out.err = "session expired"
    /\ HoldsExpired(out.id)
    /\ pending[out.id] = 1
    /\ \E other \in SessionIDs : sessions[other] # Nil /\ ~HoldsExpired(other)

\* C35: a sweep pass that reads the clock as t removes the entries whose
\* ExpiresAt is before t and no other, and leaves every other entry as it
\* was.
C35_SweepRemovesExactlyExpired ==
    out.op = "sweep" =>
        \A id \in SessionIDs :
            /\ (out.before[id] # Nil /\ out.before[id].ExpiresAt < out.time)
                   => sessions[id] = Nil
            /\ ~(out.before[id] # Nil /\ out.before[id].ExpiresAt < out.time)
                   => sessions[id] = out.before[id]

\* A pass removed a record that expired before t and kept one that expires
\* at t exactly.
C35_Witness ==
    /\ out.op = "sweep"
    /\ \E id \in SessionIDs :
           /\ out.before[id] # Nil
           /\ out.before[id].ExpiresAt < out.time
           /\ sessions[id] = Nil
    /\ \E id \in SessionIDs :
           /\ sessions[id] # Nil
           /\ sessions[id].ExpiresAt = out.time

\* C36 as stated: when a record that has not expired is Set under an id
\* after a Get of that id started a removal and before the removal runs,
\* the record is still in the store once the removal has run.
C36_RemovalSparesFreshRecord ==
    (/\ out.op = "removal"
     /\ lastPut[out.id] # Nil
     /\ lastPut[out.id] # Deleted
     /\ ~Before(lastPut[out.id].ExpiresAt, now)) =>
        sessions[out.id] = lastPut[out.id]

(***************************************************************************)
(* Claims about what the upstream is told                                  *)
(***************************************************************************)

\* C38 as stated: in every request forwarded to an upstream, on gated and
\* exempt paths alike, each of X-Auth-User, X-Auth-Email, X-Auth-Name,
\* X-Auth-Username and Authorization is absent or was written from the
\* session the request presented; none carries what the client sent.
C38_NoClientSuppliedIdentity ==
    (out.op = "http" /\ out.handler = "root" /\ out.resp.kind = "forwarded") =>
        \A h \in AuthHeaders :
            \/ out.resp.outReq.Header[h] = Absent
            \/ /\ out.gated
               /\ out.stored # Nil
               /\ IdentityOf(out.resp.outReq.Header, out.stored)
               /\ h = "Authorization" =>
                      out.resp.outReq.Header[h] = Bearer(out.stored.AccessToken)

(***************************************************************************)
(* Claims about subdomain wildcards                                        *)
(***************************************************************************)

\* The entry has the form "*.D".
IsWildcard(entry) == Len(entry) >= 2 /\ SubSeq(entry, 1, 2) = StarDot

\* The origin ends with "." followed by the D of the entry "*.D".
SubdomainOf(origin, entry) ==
    LET dotD == SubSeq(entry, 2, Len(entry))
    IN  /\ Len(dotD) <= Len(origin)
        /\ SubSeq(origin, Len(origin) - Len(dotD) + 1, Len(origin)) = dotD

\* C40 as stated: under an allow-list of entries of the form "*.D", an
\* origin is echoed in Access-Control-Allow-Origin exactly when it ends with
\* "." followed by the D of some entry; an origin that only ends with the
\* characters of D is not echoed.
C40_WildcardNeedsDot ==
    (/\ out.op = "cors"
     /\ out.origin # <<>>
     /\ \A i \in 1..Len(config.AllowedOrigins) : IsWildcard(config.AllowedOrigins[i])) =>
        (AllowOrigin(out.resp) = Plain(out.origin)
            <=> \E i \in 1..Len(config.AllowedOrigins) :
                    SubdomainOf(out.origin, config.AllowedOrigins[i]))

(***************************************************************************)
(* Claims about the return of Close                                        *)
(***************************************************************************)

\* C37 as stated: a Close that has come to its send on done is never left
\* without a receiver: the cleanup goroutine is still there to take the
\* value, also when another Close has returned before.
C37_CloseCanReturn ==
    \A g \in Callers :
        (threads[g].op = "Close" /\ threads[g].pc = "send") => ~SweeperReturned

(***************************************************************************)
(* Claims about concurrent callbacks                                       *)
(***************************************************************************)

\* The record holds the user the provider issued the record's token to.
OfOneCallback(rec) == rec.UserInfo = ProviderUser(rec.AccessToken)

\* C39: with callbacks running concurrently, every record holds an access
\* token together with the user info the provider gives for that token, each
\* write goes to an id that held no record, and a forwarded request carries
\* the identity and the token of the record under its own cookie.
C39_NoMixedSessions ==
    /\ [](\A id \in SessionIDs : sessions[id] # Nil => OfOneCallback(sessions[id]))
    /\ [][\A id \in SessionIDs :
             (sessions'[id] # Nil /\ sessions'[id] # sessions[id]) => sessions[id] = Nil]_vars
    /\ [](AuthenticatedForward =>
             /\ out.stored = sessions[out.req.Cookie]
             /\ IdentityOf(out.resp.outReq.Header, sessions[out.req.Cookie])
             /\ out.resp.outReq.Header["Authorization"] =
                    Bearer(sessions[out.req.Cookie].AccessToken))

\* Two callbacks with different tokens were in flight together: one has
\* written its record while the other holds its user info, and a request
\* with the first one's cookie has been forwarded.
C39_Witness ==
    /\ AuthenticatedForward
    /\ \E g \in Callers :
           /\ threads[g].op = "HandleCallback"
           /\ threads[g].pc = "Set"
           /\ threads[g].data.tokenResp.AccessToken # out.stored.AccessToken
           /\ threads[g].data.userInfo # out.stored.UserInfo

====
